---- MODULE Spec2Model ----
\* Model of the streaming tool-call rewriter (ToolCallTransformer) of the
\* Kimi tool-call proxy: downstream/transformer (processEvent, processReasoning,
\* the chunk builders) and the part of the stream adapter that feeds it.
\*
\* Go strings are modelled as sequences of one-character strings, so that
\* strings.Index, strings.Contains, strings.TrimSpace and slicing are computed
\* on characters, as the code computes them.  JSON objects are modelled as
\* functions from the keys that are present to their values; json.Unmarshal
\* and json.Marshal are operators between JSON objects and the Go structs.
EXTENDS Integers, Sequences, FiniteSets, TLC

\* ------------------------------------------------------------------------
\* strings
\* ------------------------------------------------------------------------

\* s[a:b] of Go (0-based, b exclusive)
Slice(s, a, b) == SubSeq(s, a + 1, b)

\* strings.HasPrefix
HasPrefix(s, p) == Len(s) >= Len(p) /\ SubSeq(s, 1, Len(p)) = p

\* the 0-based positions at which sub occurs in s
Occurrences(s, sub) ==
    {i \in 0..(Len(s) - Len(sub)) : SubSeq(s, i + 1, i + Len(sub)) = sub}

\* strings.Index: the first occurrence, or -1
Index(s, sub) ==
    LET occ == Occurrences(s, sub)
    IN  IF occ = {} THEN -1 ELSE CHOOSE i \in occ : \A j \in occ : i <= j

\* strings.LastIndex: the last occurrence, or -1
LastIndex(s, sub) ==
    LET occ == Occurrences(s, sub)
    IN  IF occ = {} THEN -1 ELSE CHOOSE i \in occ : \A j \in occ : i >= j

\* strings.Contains
Contains(s, sub) == Occurrences(s, sub) # {}

\* the white space strings.TrimSpace removes (ASCII part)
IsSpace(c) == c \in {" ", "\t", "\n", "\r"}

\* strings.TrimSpace
TrimSpace(s) ==
    LET keep == {i \in 1..Len(s) : ~IsSpace(s[i])}
    IN  IF keep = {} THEN <<>>
        ELSE SubSeq(s, CHOOSE i \in keep : \A j \in keep : i <= j,
                       CHOOSE i \in keep : \A j \in keep : i >= j)

Digit(d) == <<"0", "1", "2", "3", "4", "5", "6", "7", "8", "9">>[d + 1]

\* the %d verb of fmt.Sprintf, for n >= 0
RECURSIVE Itoa(_)
Itoa(n) == IF n < 10 THEN <<Digit(n)>> ELSE Itoa(n \div 10) \o <<Digit(n % 10)>>

\* ------------------------------------------------------------------------
\* the token alphabet
\* ------------------------------------------------------------------------

tokSectionBegin ==
    <<"<","|","t","o","o","l","_","c","a","l","l","s","_","s","e","c","t","i","o","n",
      "_","b","e","g","i","n","|",">">>
tokCallBegin ==
    <<"<","|","t","o","o","l","_","c","a","l","l","_","b","e","g","i","n","|",">">>
tokArgBegin ==
    <<"<","|","t","o","o","l","_","c","a","l","l","_","a","r","g","u","m","e","n","t",
      "_","b","e","g","i","n","|",">">>
tokCallEnd ==
    <<"<","|","t","o","o","l","_","c","a","l","l","_","e","n","d","|",">">>
tokSectionEnd ==
    <<"<","|","t","o","o","l","_","c","a","l","l","s","_","s","e","c","t","i","o","n",
      "_","e","n","d","|",">">>

\* the marker containsAnyToken looks for
tokAnyPrefix == <<"<","|","t","o","o","l","_","c","a","l","l">>

containsAnyToken(s) == Contains(s, tokAnyPrefix)

stateIdle == "Idle"
stateInSection == "InSection"
stateReadingID == "ReadingID"
stateReadingArgs == "ReadingArgs"
stateTrailing == "Trailing"

parserState ==
    {stateIdle, stateInSection, stateReadingID, stateReadingArgs, stateTrailing}

\* ------------------------------------------------------------------------
\* the event model: Go structs, and JSON objects with the keys present
\* ------------------------------------------------------------------------

\* the JSON object {} ; a nil pointer or an absent optional is the empty sequence
EmptyObj == [k \in {} |-> k]

Get(obj, key, zero) == IF key \in DOMAIN obj THEN obj[key] ELSE zero

\* one key of an object being marshalled, left out when omitempty applies
Field(key, value, present) == IF present THEN key :> value ELSE EmptyObj

DeltaZero ==
    [Content |-> <<>>, Reasoning |-> <<>>, ReasoningContent |-> <<>>,
     ToolCalls |-> <<>>, FinishReason |-> <<>>]

\* json.Unmarshal into Function, ToolCall, Delta, Choice, Usage, Chunk: a
\* key that is absent leaves the zero value, a key the struct does not
\* declare is dropped; a pointer field is a sequence of length at most one
UnmarshalFunction(o) ==
    [Name |-> Get(o, "name", <<>>), Arguments |-> Get(o, "arguments", <<>>)]

UnmarshalToolCall(o) ==
    [ID |-> Get(o, "id", <<>>), Type |-> Get(o, "type", ""),
     Index |-> Get(o, "index", 0),
     Function |-> UnmarshalFunction(Get(o, "function", EmptyObj))]

UnmarshalDelta(o) ==
    LET tcs == Get(o, "tool_calls", <<>>)
    IN  [Content |-> Get(o, "content", <<>>),
         Reasoning |-> Get(o, "reasoning", <<>>),
         ReasoningContent |-> Get(o, "reasoning_content", <<>>),
         ToolCalls |-> [i \in 1..Len(tcs) |-> UnmarshalToolCall(tcs[i])],
         FinishReason |-> IF "finish_reason" \in DOMAIN o
                          THEN <<o["finish_reason"]>> ELSE <<>>]

UnmarshalChoice(o) ==
    [Index |-> Get(o, "index", 0),
     Delta |-> UnmarshalDelta(Get(o, "delta", EmptyObj)),
     FinishReason |-> IF "finish_reason" \in DOMAIN o
                      THEN <<o["finish_reason"]>> ELSE <<>>]

UnmarshalUsage(o) ==
    [PromptTokens |-> Get(o, "prompt_tokens", 0),
     CompletionTokens |-> Get(o, "completion_tokens", 0)]

UnmarshalChunk(o) ==
    LET cs == Get(o, "choices", <<>>)
    IN  [ID |-> Get(o, "id", ""), Object |-> Get(o, "object", ""),
         Model |-> Get(o, "model", ""), Created |-> Get(o, "created", 0),
         Choices |-> [i \in 1..Len(cs) |-> UnmarshalChoice(cs[i])],
         Usage |-> IF "usage" \in DOMAIN o
                   THEN <<UnmarshalUsage(o["usage"])>> ELSE <<>>]

\* json.Marshal of the same structs, with the omitempty of the field tags
MarshalFunction(f) ==
    Field("name", f.Name, f.Name # <<>>)
    @@ Field("arguments", f.Arguments, f.Arguments # <<>>)

MarshalToolCall(tc) ==
    Field("id", tc.ID, tc.ID # <<>>)
    @@ Field("type", tc.Type, tc.Type # "")
    @@ ("index" :> tc.Index)
    @@ ("function" :> MarshalFunction(tc.Function))

\* MarshalDelta of a Delta struct that lacks the ReasoningContent field
MarshalDeltaNoReasoningContent(d) ==
    Field("content", d.Content, d.Content # <<>>)
    @@ Field("reasoning", d.Reasoning, d.Reasoning # <<>>)
    @@ Field("tool_calls",
             [i \in 1..Len(d.ToolCalls) |-> MarshalToolCall(d.ToolCalls[i])],
             d.ToolCalls # <<>>)
    @@ Field("finish_reason", Get(d.FinishReason, 1, ""), d.FinishReason # <<>>)

MarshalDelta(d) ==
    Field("content", d.Content, d.Content # <<>>)
    @@ Field("reasoning", d.Reasoning, d.Reasoning # <<>>)
    @@ Field("reasoning_content", d.ReasoningContent, d.ReasoningContent # <<>>)
    @@ Field("tool_calls",
             [i \in 1..Len(d.ToolCalls) |-> MarshalToolCall(d.ToolCalls[i])],
             d.ToolCalls # <<>>)
    @@ Field("finish_reason", Get(d.FinishReason, 1, ""), d.FinishReason # <<>>)

MarshalChoice(c) ==
    ("index" :> c.Index)
    @@ ("delta" :> MarshalDelta(c.Delta))
    @@ Field("finish_reason", Get(c.FinishReason, 1, ""), c.FinishReason # <<>>)

MarshalUsage(u) ==
    [prompt_tokens |-> u.PromptTokens, completion_tokens |-> u.CompletionTokens]

MarshalChunk(c) ==
    Field("id", c.ID, c.ID # "")
    @@ Field("object", c.Object, c.Object # "")
    @@ Field("model", c.Model, c.Model # "")
    @@ Field("created", c.Created, c.Created # 0)
    @@ ("choices" :> [i \in 1..Len(c.Choices) |-> MarshalChoice(c.Choices[i])])
    @@ Field("usage", MarshalUsage(Get(c.Usage, 1, UnmarshalUsage(EmptyObj))),
             c.Usage # <<>>)

\* one SSE event written downstream: "data: " + text + "\n\n", or
\* "data: " + the JSON encoding of obj + "\n\n"
RawPayload(text) == [kind |-> "raw", text |-> text]
JsonPayload(obj) == [kind |-> "json", obj |-> obj]

DoneText == <<"[", "D", "O", "N", "E", "]">>

\* ------------------------------------------------------------------------
\* the rewriter: t is the record of the fields state, buf, toolIndex and
\* currentID of one ToolCallTransformer
\* ------------------------------------------------------------------------

NewToolCallTransformer ==
    [state |-> stateIdle, buf |-> <<>>, toolIndex |-> 0, currentID |-> <<>>]

\* the bytes emit writes for chunk c
emit(c) == <<JsonPayload(MarshalChunk(c))>>

\* shallowCopy that numbers its choice 0 whatever the index of the original
shallowCopyIndexZero(c) ==
    [c EXCEPT !.Choices = <<[Index |-> 0,
                             Delta |-> DeltaZero,
                             FinishReason |-> c.Choices[1].FinishReason]>>]

shallowCopy(c) ==
    [c EXCEPT !.Choices = <<[Index |-> c.Choices[1].Index,
                             Delta |-> DeltaZero,
                             FinishReason |-> c.Choices[1].FinishReason]>>]

WithDelta(c, d) == [c EXCEPT !.Choices[1].Delta = d]

\* makeContentChunk that adds the content to the delta of the upstream chunk
makeContentChunkInDelta(base, content) ==
    JsonPayload(MarshalChunk([base EXCEPT !.Choices[1].Delta.Content = content]))

makeContentChunk(base, content) ==
    JsonPayload(MarshalChunk(
        WithDelta(shallowCopy(base), [DeltaZero EXCEPT !.Content = content])))

\* makeToolCallHeader that leaves the type of the call out
makeToolCallHeaderNoType(t, base, name) ==
    JsonPayload(MarshalChunk(
        WithDelta(shallowCopy(base),
                  [DeltaZero EXCEPT !.ToolCalls =
                      <<[ID |-> t.currentID, Type |-> "",
                         Index |-> t.toolIndex,
                         Function |-> [Name |-> name, Arguments |-> <<>>]]>>])))

makeToolCallHeader(t, base, name) ==
    JsonPayload(MarshalChunk(
        WithDelta(shallowCopy(base),
                  [DeltaZero EXCEPT !.ToolCalls =
                      <<[ID |-> t.currentID, Type |-> "function",
                         Index |-> t.toolIndex,
                         Function |-> [Name |-> name, Arguments |-> <<>>]]>>])))

\* makeArgsDelta with the index of the next call instead of the current one
makeArgsDeltaNextIndex(t, base, args) ==
    JsonPayload(MarshalChunk(
        WithDelta(shallowCopy(base),
                  [DeltaZero EXCEPT !.ToolCalls =
                      <<[ID |-> <<>>, Type |-> "",
                         Index |-> t.toolIndex + 1,
                         Function |-> [Name |-> <<>>, Arguments |-> args]]>>])))

\* makeArgsDelta that closes the arguments with a brace of its own
makeArgsDeltaClosed(t, base, args) ==
    JsonPayload(MarshalChunk(
        WithDelta(shallowCopy(base),
                  [DeltaZero EXCEPT !.ToolCalls =
                      <<[ID |-> <<>>, Type |-> "",
                         Index |-> t.toolIndex,
                         Function |-> [Name |-> <<>>,
                                       Arguments |-> args \o <<"}">>]]>>])))

makeArgsDelta(t, base, args) ==
    JsonPayload(MarshalChunk(
        WithDelta(shallowCopy(base),
                  [DeltaZero EXCEPT !.ToolCalls =
                      <<[ID |-> <<>>, Type |-> "",
                         Index |-> t.toolIndex,
                         Function |-> [Name |-> <<>>, Arguments |-> args]]>>])))

callPrefix == <<"c", "a", "l", "l", "_">>

\* parseToolCallID that synthesizes an id for every identifier
parseToolCallIDSynthesized(raw, index, millis) ==
    callPrefix \o Itoa(index) \o <<"_">> \o Itoa(millis)

\* the id parseToolCallID returns (its second result is discarded by the
\* caller); millis is time.Now().UnixMilli()
parseToolCallID(raw, index, millis) ==
    LET r == TrimSpace(raw)
    IN  IF HasPrefix(r, callPrefix) THEN r
        ELSE callPrefix \o Itoa(index) \o <<"_">> \o Itoa(millis)

\* parseFunctionName cutting at the last dot instead of the first
parseFunctionNameLastDot(raw) ==
    LET r0 == TrimSpace(raw)
        i  == LastIndex(r0, <<".">>)
        r1 == IF i >= 0 THEN Slice(r0, i + 1, Len(r0)) ELSE r0
        j  == LastIndex(r1, <<":">>)
    IN  IF j >= 0 THEN Slice(r1, 0, j) ELSE r1

parseFunctionName(raw) ==
    LET r0 == TrimSpace(raw)
        i  == Index(r0, <<".">>)
        r1 == IF i >= 0 THEN Slice(r0, i + 1, Len(r0)) ELSE r0
        j  == LastIndex(r1, <<":">>)
    IN  IF j >= 0 THEN Slice(r1, 0, j) ELSE r1

\* One iteration of the loop of processReasoning in each state: the rewriter
\* after it, the payloads it appends to out, and whether it returns.
\* caseIdle that leaves the section marker in buf
caseIdleKeepsMarker(t, base) ==
    LET idx == Index(t.buf, tokSectionBegin)
    IN  IF idx < 0 THEN [t |-> t, out |-> <<>>, ret |-> TRUE]
        ELSE [t |-> [t EXCEPT
                       !.buf = Slice(t.buf, idx, Len(t.buf)),
                       !.state = stateInSection],
              out |-> IF idx > 0
                      THEN <<makeContentChunk(base, Slice(t.buf, 0, idx))>>
                      ELSE <<>>,
              ret |-> FALSE]

caseIdle(t, base) ==
    LET idx == Index(t.buf, tokSectionBegin)
    IN  IF idx < 0 THEN [t |-> t, out |-> <<>>, ret |-> TRUE]
        ELSE [t |-> [t EXCEPT
                       !.buf = Slice(t.buf, idx + Len(tokSectionBegin), Len(t.buf)),
                       !.state = stateInSection],
              out |-> IF idx > 0
                      THEN <<makeContentChunk(base, Slice(t.buf, 0, idx))>>
                      ELSE <<>>,
              ret |-> FALSE]

\* caseInSection that goes back to Idle at the end of the section
caseInSectionToIdle(t, base) ==
    LET idx    == Index(t.buf, tokCallBegin)
        endIdx == Index(t.buf, tokSectionEnd)
    IN  IF endIdx >= 0 /\ (idx < 0 \/ endIdx < idx)
        THEN LET trailing == Slice(t.buf, endIdx + Len(tokSectionEnd), Len(t.buf))
             IN  [t |-> [t EXCEPT !.buf = <<>>, !.state = stateIdle],
                  out |-> IF trailing # <<>>
                          THEN <<makeContentChunk(base, trailing)>> ELSE <<>>,
                  ret |-> TRUE]
        ELSE IF idx < 0 THEN [t |-> t, out |-> <<>>, ret |-> TRUE]
        ELSE [t |-> [t EXCEPT
                       !.buf = Slice(t.buf, idx + Len(tokCallBegin), Len(t.buf)),
                       !.state = stateReadingID],
              out |-> <<>>, ret |-> FALSE]

caseInSection(t, base) ==
    LET idx    == Index(t.buf, tokCallBegin)
        endIdx == Index(t.buf, tokSectionEnd)
    IN  IF endIdx >= 0 /\ (idx < 0 \/ endIdx < idx)
        THEN LET trailing == Slice(t.buf, endIdx + Len(tokSectionEnd), Len(t.buf))
             IN  [t |-> [t EXCEPT !.buf = <<>>, !.state = stateTrailing],
                  out |-> IF trailing # <<>>
                          THEN <<makeContentChunk(base, trailing)>> ELSE <<>>,
                  ret |-> TRUE]
        ELSE IF idx < 0 THEN [t |-> t, out |-> <<>>, ret |-> TRUE]
        ELSE [t |-> [t EXCEPT
                       !.buf = Slice(t.buf, idx + Len(tokCallBegin), Len(t.buf)),
                       !.state = stateReadingID],
              out |-> <<>>, ret |-> FALSE]

\* caseReadingID that drops a call whose identifier yields no name
caseReadingIDDropsNameless(t, base, millis) ==
    LET argIdx == Index(t.buf, tokArgBegin)
    IN  IF argIdx < 0 THEN [t |-> t, out |-> <<>>, ret |-> TRUE]
        ELSE LET rawID == TrimSpace(Slice(t.buf, 0, argIdx))
                 name  == parseFunctionName(rawID)
                 t1    == [t EXCEPT
                             !.currentID = parseToolCallID(rawID, t.toolIndex, millis),
                             !.buf = Slice(t.buf, argIdx + Len(tokArgBegin), Len(t.buf)),
                             !.state = stateReadingArgs]
             IN  IF name = <<>>
                 THEN [t |-> [t1 EXCEPT !.state = stateInSection],
                       out |-> <<>>, ret |-> FALSE]
                 ELSE [t |-> t1, out |-> <<makeToolCallHeader(t1, base, name)>>,
                       ret |-> FALSE]

\* caseReadingID with the raw identifier as the name of the header
caseReadingIDRawName(t, base, millis) ==
    LET argIdx == Index(t.buf, tokArgBegin)
    IN  IF argIdx < 0 THEN [t |-> t, out |-> <<>>, ret |-> TRUE]
        ELSE LET rawID == TrimSpace(Slice(t.buf, 0, argIdx))
                 t1    == [t EXCEPT
                             !.currentID = parseToolCallID(rawID, t.toolIndex, millis),
                             !.buf = Slice(t.buf, argIdx + Len(tokArgBegin), Len(t.buf)),
                             !.state = stateReadingArgs]
             IN  [t |-> t1, out |-> <<makeToolCallHeader(t1, base, rawID)>>,
                  ret |-> FALSE]

caseReadingID(t, base, millis) ==
    LET argIdx == Index(t.buf, tokArgBegin)
    IN  IF argIdx < 0 THEN [t |-> t, out |-> <<>>, ret |-> TRUE]
        ELSE LET rawID == TrimSpace(Slice(t.buf, 0, argIdx))
                 name  == parseFunctionName(rawID)
                 t1    == [t EXCEPT
                             !.currentID = parseToolCallID(rawID, t.toolIndex, millis),
                             !.buf = Slice(t.buf, argIdx + Len(tokArgBegin), Len(t.buf)),
                             !.state = stateReadingArgs]
             IN  [t |-> t1, out |-> <<makeToolCallHeader(t1, base, name)>>,
                  ret |-> FALSE]

\* caseReadingArgs that counts every call twice
caseReadingArgsCountsTwice(t, base) ==
    LET endIdx == Index(t.buf, tokCallEnd)
    IN  IF endIdx < 0
        THEN IF t.buf # <<>>
             THEN [t |-> [t EXCEPT !.buf = <<>>],
                   out |-> <<makeArgsDelta(t, base, t.buf)>>, ret |-> TRUE]
             ELSE [t |-> t, out |-> <<>>, ret |-> TRUE]
        ELSE LET args == Slice(t.buf, 0, endIdx)
             IN  [t |-> [t EXCEPT
                           !.buf = Slice(t.buf, endIdx + Len(tokCallEnd), Len(t.buf)),
                           !.toolIndex = t.toolIndex + 2,
                           !.state = stateInSection],
                  out |-> IF args # <<>>
                          THEN <<makeArgsDelta(t, base, args)>> ELSE <<>>,
                  ret |-> FALSE]

\* caseReadingArgs without the toolIndex++ at the end of a call
caseReadingArgsNoIncrement(t, base) ==
    LET endIdx == Index(t.buf, tokCallEnd)
    IN  IF endIdx < 0
        THEN IF t.buf # <<>>
             THEN [t |-> [t EXCEPT !.buf = <<>>],
                   out |-> <<makeArgsDelta(t, base, t.buf)>>, ret |-> TRUE]
             ELSE [t |-> t, out |-> <<>>, ret |-> TRUE]
        ELSE LET args == Slice(t.buf, 0, endIdx)
             IN  [t |-> [t EXCEPT
                           !.buf = Slice(t.buf, endIdx + Len(tokCallEnd), Len(t.buf)),
                           !.state = stateInSection],
                  out |-> IF args # <<>>
                          THEN <<makeArgsDelta(t, base, args)>> ELSE <<>>,
                  ret |-> FALSE]

\* caseReadingArgs without the tests for empty arguments
caseReadingArgsEmptyFlush(t, base) ==
    LET endIdx == Index(t.buf, tokCallEnd)
    IN  IF endIdx < 0
        THEN [t |-> [t EXCEPT !.buf = <<>>],
              out |-> <<makeArgsDelta(t, base, t.buf)>>, ret |-> TRUE]
        ELSE LET args == Slice(t.buf, 0, endIdx)
             IN  [t |-> [t EXCEPT
                           !.buf = Slice(t.buf, endIdx + Len(tokCallEnd), Len(t.buf)),
                           !.toolIndex = t.toolIndex + 1,
                           !.state = stateInSection],
                  out |-> <<makeArgsDelta(t, base, args)>>,
                  ret |-> FALSE]

caseReadingArgs(t, base) ==
    LET endIdx == Index(t.buf, tokCallEnd)
    IN  IF endIdx < 0
        THEN IF t.buf # <<>>
             THEN [t |-> [t EXCEPT !.buf = <<>>],
                   out |-> <<makeArgsDelta(t, base, t.buf)>>, ret |-> TRUE]
             ELSE [t |-> t, out |-> <<>>, ret |-> TRUE]
        ELSE LET args == Slice(t.buf, 0, endIdx)
             IN  [t |-> [t EXCEPT
                           !.buf = Slice(t.buf, endIdx + Len(tokCallEnd), Len(t.buf)),
                           !.toolIndex = t.toolIndex + 1,
                           !.state = stateInSection],
                  out |-> IF args # <<>>
                          THEN <<makeArgsDelta(t, base, args)>> ELSE <<>>,
                  ret |-> FALSE]

\* caseTrailing that opens a new section at a later section marker
caseTrailingReopens(t, base) ==
    LET idx == Index(t.buf, tokSectionBegin)
    IN  IF idx < 0 THEN [t |-> t, out |-> <<>>, ret |-> TRUE]
        ELSE [t |-> [t EXCEPT
                       !.buf = Slice(t.buf, idx + Len(tokSectionBegin), Len(t.buf)),
                       !.state = stateInSection],
              out |-> <<>>, ret |-> FALSE]

caseTrailing(t, base) == [t |-> t, out |-> <<>>, ret |-> TRUE]

loopStep(t, base, millis) ==
    CASE t.state = stateIdle        -> caseIdle(t, base)
      [] t.state = stateInSection   -> caseInSection(t, base)
      [] t.state = stateReadingID   -> caseReadingID(t, base, millis)
      [] t.state = stateReadingArgs -> caseReadingArgs(t, base)
      [] t.state = stateTrailing    -> caseTrailing(t, base)

\* the for loop of processReasoning, from rewriter t with out collected so far
RECURSIVE loop(_, _, _, _)
loop(t, base, out, millis) ==
    LET r == loopStep(t, base, millis)
    IN  IF r.ret THEN [t |-> r.t, out |-> out \o r.out]
        ELSE loop(r.t, base, out \o r.out, millis)

processReasoning(t, base, text, millis) ==
    loop([t EXCEPT !.buf = t.buf \o text], base, <<>>, millis)

\* finish_reason promoted from the delta to the choice
\* promote that copies the finish_reason and leaves it in the delta too
promoteCopy(chunk) ==
    IF Len(chunk.Choices) > 0 /\ chunk.Choices[1].Delta.FinishReason # <<>>
    THEN [chunk EXCEPT
            !.Choices[1].FinishReason = chunk.Choices[1].Delta.FinishReason]
    ELSE chunk

promote(chunk) ==
    IF Len(chunk.Choices) > 0 /\ chunk.Choices[1].Delta.FinishReason # <<>>
    THEN [chunk EXCEPT
            !.Choices[1].FinishReason = chunk.Choices[1].Delta.FinishReason,
            !.Choices[1].Delta.FinishReason = <<>>]
    ELSE chunk

\* the text processEvent takes from the delta
\* reasoningOf that takes the text of both keys, one after the other
reasoningOfBoth(chunk) ==
    chunk.Choices[1].Delta.Reasoning \o chunk.Choices[1].Delta.ReasoningContent

reasoningOf(chunk) ==
    IF chunk.Choices[1].Delta.Reasoning # <<>>
    THEN chunk.Choices[1].Delta.Reasoning
    ELSE chunk.Choices[1].Delta.ReasoningContent

\* isPassthrough without the test for the marker
isPassthroughIdleOnly(t, reasoning) == t.state = stateIdle

\* the fast passthrough test of processEvent
isPassthrough(t, reasoning) == ~containsAnyToken(reasoning) /\ t.state = stateIdle

\* the conversion that is commented out in the passthrough branch of
\* processEvent: reasoning text moved into content
moveReasoning(chunk, reasoning) ==
    IF reasoning # <<>>
    THEN [chunk EXCEPT !.Choices[1].Delta.Content = reasoning,
                       !.Choices[1].Delta.Reasoning = <<>>,
                       !.Choices[1].Delta.ReasoningContent = <<>>]
    ELSE chunk

\* processEvent with that conversion enabled
processEventMoveReasoning(t, ev, millis) ==
    IF ev.kind = "text"
    THEN LET s == TrimSpace(ev.text)
         IN  [t |-> t, out |-> <<RawPayload(s)>>]
    ELSE LET chunk == promote(UnmarshalChunk(ev.obj))
         IN  IF Len(chunk.Choices) = 0 THEN [t |-> t, out |-> emit(chunk)]
             ELSE IF isPassthrough(t, reasoningOf(chunk))
                  THEN [t |-> t, out |-> emit(moveReasoning(chunk, reasoningOf(chunk)))]
                  ELSE processReasoning(t, chunk, reasoningOf(chunk), millis)

\* processEvent that forwards a chunk without choices in state Idle only
processEventUsageIdleOnly(t, ev, millis) ==
    IF ev.kind = "text"
    THEN LET s == TrimSpace(ev.text)
         IN  [t |-> t, out |-> <<RawPayload(s)>>]
    ELSE LET chunk == promote(UnmarshalChunk(ev.obj))
         IN  IF Len(chunk.Choices) = 0
             THEN [t |-> t, out |-> IF t.state = stateIdle THEN emit(chunk) ELSE <<>>]
             ELSE IF isPassthrough(t, reasoningOf(chunk))
                  THEN [t |-> t, out |-> emit(chunk)]
                  ELSE processReasoning(t, chunk, reasoningOf(chunk), millis)

\* processEvent that drops what buf holds when it passes a chunk through
processEventPassthroughClears(t, ev, millis) ==
    IF ev.kind = "text"
    THEN LET s == TrimSpace(ev.text)
         IN  [t |-> t, out |-> <<RawPayload(s)>>]
    ELSE LET chunk == promote(UnmarshalChunk(ev.obj))
         IN  IF Len(chunk.Choices) = 0 THEN [t |-> t, out |-> emit(chunk)]
             ELSE IF isPassthrough(t, reasoningOf(chunk))
                  THEN [t |-> [t EXCEPT !.buf = <<>>], out |-> emit(chunk)]
                  ELSE processReasoning(t, chunk, reasoningOf(chunk), millis)

\* processEvent that starts the rewriter afresh on data that does not parse
processEventResetOnGarbage(t, ev, millis) ==
    IF ev.kind = "text"
    THEN LET s == TrimSpace(ev.text)
         IN  [t |-> NewToolCallTransformer, out |-> <<RawPayload(s)>>]
    ELSE LET chunk == promote(UnmarshalChunk(ev.obj))
         IN  IF Len(chunk.Choices) = 0 THEN [t |-> t, out |-> emit(chunk)]
             ELSE IF isPassthrough(t, reasoningOf(chunk))
                  THEN [t |-> t, out |-> emit(chunk)]
                  ELSE processReasoning(t, chunk, reasoningOf(chunk), millis)

\* An upstream event is [kind |-> "text", text |-> s] when its data s is not
\* a JSON object, and [kind |-> "json", obj |-> o] when it decodes to o.
processEvent(t, ev, millis) ==
    IF ev.kind = "text"
    THEN LET s == TrimSpace(ev.text)
         IN  [t |-> t, out |-> <<RawPayload(s)>>]
    ELSE LET chunk == promote(UnmarshalChunk(ev.obj))
         IN  IF Len(chunk.Choices) = 0 THEN [t |-> t, out |-> emit(chunk)]
             ELSE IF isPassthrough(t, reasoningOf(chunk))
                  THEN [t |-> t, out |-> emit(chunk)]
                  ELSE processReasoning(t, chunk, reasoningOf(chunk), millis)

\* Transform without its test of the event data (part of it is repeated by
\* processEvent, which knows [DONE] but not the empty data)
TransformNoDataTest(t, ev, millis) == processEvent(t, ev, millis)

\* Transform: what it does to the rewriter and what writeSSE writes
Transform(t, ev, millis) ==
    IF ev.kind = "text" /\ (ev.text = <<>> \/ ev.text = DoneText)
    THEN [t |-> t,
          out |-> IF ev.text = DoneText THEN <<RawPayload(DoneText)>> ELSE <<>>]
    ELSE processEvent(t, ev, millis)

\* ------------------------------------------------------------------------
\* the upstream: streams of reasoning text, cut into chunks at any of the
\* places a stream names
\* ------------------------------------------------------------------------

\* the largest number of tool calls of a generated section
MaxCalls == 2

txtPre == <<"P","r","e"," ">>
txtSectionHead == <<"<","|","t","o","o","l","_","c","a","l","l","s","_">>
txtSectionTail == <<"s","e","c","t","i","o","n","_","b","e","g","i","n","|",">">>
txtMyFunc == <<"m","y",".","f","u","n","c",":","1">>
txtBraces == <<"{","}">>
txtThinking == <<"T","h","i","n","k","i","n","g",".",".","."," ">>
txtBash1 == <<"b","a","s","h",":","1">>
txtCmdHead == <<"{","\"","c","m","d","\"">>
txtCmdTail == <<":"," ","\"","l","s","\"","}">>
txtDone == <<" ","D","o","n","e","!">>
txtA1 == <<"a",":","1">>
txtB2 == <<"b",":","2">>
txtIfX == <<"i","f"," ","x"," ","<">>
txt5Then == <<" ","5"," ","t","h","e","n">>
txtPartial == <<"{","\"","p","a","r","t","i","a","l","\"">>
txtEndTail == <<"_","e","n","d","|",">">>
txtEnd == <<" ","e","n","d">>
txtHello == <<"H","e","l","l","o"," ">>
txtWorld == <<"w","o","r","l","d">>
txtBash == <<"b","a","s","h">>
txtCmdLs == <<"{","\"","c","m","d","\"",":","\"","l","s","\"","}">>
txtCallAbc == <<"c","a","l","l","_","a","b","c">>
txtFunctionsBash == <<"f","u","n","c","t","i","o","n","s",".","b","a","s","h",":","1","5">>
txtCallSpaced == <<" ","c","a","l","l","_","a","b","c","\n">>
txtMyPkgTask == <<"m","y",".","p","k","g",".","t","a","s","k",":","3">>
txtDoIt == <<" ","d","o","_","i","t">>
txtFunctionsDot == <<"f","u","n","c","t","i","o","n","s",".">>

\* scenario S1: the section begin split over two chunks
StreamFragmented ==
    <<txtPre, txtSectionHead, txtSectionTail,
      tokCallBegin \o txtMyFunc \o tokArgBegin, txtBraces, tokCallEnd,
      tokSectionEnd>>

\* scenario S2: content before and after the section, streamed arguments
StreamMixed ==
    <<txtThinking \o tokSectionBegin \o tokCallBegin \o txtBash1 \o tokArgBegin,
      txtCmdHead, txtCmdTail, tokCallEnd \o tokSectionEnd \o txtDone>>

\* scenario S3: two calls of one section in one frame
StreamTwoCalls ==
    <<tokSectionBegin \o tokCallBegin \o txtA1 \o tokArgBegin \o txtBraces
      \o tokCallEnd \o tokCallBegin \o txtB2 \o tokArgBegin \o txtBraces
      \o tokCallEnd \o tokSectionEnd>>

\* scenario S4: a literal < in plain text
StreamLessThan == <<txtIfX, txt5Then>>

\* scenario S5: the stream stops in the middle of the arguments
StreamPartial ==
    <<tokSectionBegin \o tokCallBegin \o txtBash1 \o tokArgBegin \o txtPartial>>

\* the call end split over two chunks
StreamSplitEnd ==
    <<tokSectionBegin, tokCallBegin \o txtBash \o tokArgBegin, txtBraces,
      tokAnyPrefix, txtEndTail, tokSectionEnd, txtEnd>>

\* the marker as bare literal text outside a section
StreamBare == <<txtPre, tokAnyPrefix \o txtEnd, txtWorld>>

\* the stream of the test content_before_and_after_toolcall
StreamTestLog ==
    <<txtHello \o tokSectionBegin \o txtWorld,
      <<" ">> \o tokCallBegin \o txtBash \o tokArgBegin \o txtCmdLs \o tokCallEnd
      \o <<" ">> \o tokSectionEnd \o txtEnd>>

\* text after the section end, in chunks of its own
StreamTrailing ==
    <<txtThinking \o tokSectionBegin,
      tokCallBegin \o txtBash1 \o tokArgBegin \o txtBraces \o tokCallEnd,
      tokSectionEnd, txtDone, txtEnd>>

\* the marker as bare literal text, plain text, and then a section
StreamOvertake ==
    <<tokAnyPrefix \o txtEnd, txtWorld, tokSectionBegin \o tokSectionEnd>>

\* identifiers of every form: call_ with white space around it, dots and a
\* colon, neither
StreamNames ==
    <<tokSectionBegin,
      tokCallBegin \o txtCallSpaced \o tokArgBegin \o txtBraces \o tokCallEnd,
      tokCallBegin \o txtMyPkgTask \o tokArgBegin \o txtBraces \o tokCallEnd,
      tokCallBegin \o txtDoIt \o tokArgBegin \o txtBraces \o tokCallEnd
      \o tokSectionEnd>>

\* identifiers that yield no function name: the empty identifier and one
\* that ends in a dot
StreamEmptyName ==
    <<tokSectionBegin,
      tokCallBegin \o tokArgBegin \o txtBraces \o tokCallEnd,
      tokCallBegin \o txtFunctionsDot \o tokArgBegin,
      txtBraces \o tokCallEnd \o tokSectionEnd>>

\* a second section after the end of the first
StreamSecondSection ==
    <<txtPre \o tokSectionBegin,
      tokCallBegin \o txtA1 \o tokArgBegin \o txtBraces \o tokCallEnd,
      tokSectionEnd, tokSectionBegin,
      tokCallBegin \o txtB2 \o tokArgBegin \o txtBraces \o tokCallEnd,
      tokSectionEnd \o txtEnd>>

\* a call with empty arguments, its call end cut in two, and a second one
StreamEmptyArgs ==
    <<tokSectionBegin, tokCallBegin \o txtA1 \o tokArgBegin,
      tokAnyPrefix, txtEndTail,
      tokCallBegin \o txtB2 \o tokArgBegin \o tokCallEnd, tokSectionEnd>>

\* a section begin at the start of the text and a section without calls
StreamNoCalls == <<tokSectionBegin, tokSectionEnd, txtDone>>

\* a section of n calls, cut at every delimiter
CallPieces(i) ==
    <<tokCallBegin \o (IF i % 2 = 1 THEN txtFunctionsBash ELSE txtCallAbc)
      \o tokArgBegin,
      txtCmdLs, tokCallEnd>>

RECURSIVE CallsPieces(_)
CallsPieces(n) == IF n = 0 THEN <<>> ELSE CallsPieces(n - 1) \o CallPieces(n)

StreamSection(n) ==
    <<tokSectionBegin>> \o CallsPieces(n) \o <<tokSectionEnd \o txtEnd>>

\* the delta key the upstream puts its reasoning text in: both keys carry the
\* same text when both are present
Streams ==
    {[pieces |-> p, field |-> "reasoning"] :
        p \in {StreamFragmented, StreamMixed, StreamTwoCalls, StreamLessThan,
               StreamPartial, StreamSplitEnd, StreamBare, StreamTestLog,
               StreamTrailing, StreamOvertake, StreamNames, StreamEmptyName}
              \cup {StreamSection(n) : n \in 0..MaxCalls}}
    \cup {[pieces |-> StreamFragmented, field |-> "reasoning_content"],
          [pieces |-> StreamMixed, field |-> "both"]}

RECURSIVE Concat(_)
Concat(ss) == IF ss = <<>> THEN <<>> ELSE Head(ss) \o Concat(Tail(ss))

BaseObj(choices) ==
    [id |-> "chatcmpl-1", object |-> "chat.completion.chunk", created |-> 123,
     model |-> "test", choices |-> choices]

\* the upstream chunk carrying reasoning text in the delta key(s) of field
ReasoningEvent(text, field) ==
    [kind |-> "json",
     obj |-> BaseObj(<<[index |-> 0,
                        delta |-> Field("reasoning", text,
                                        field \in {"reasoning", "both"})
                                  @@ Field("reasoning_content", text,
                                           field \in {"reasoning_content", "both"})]>>)]

\* the upstream chunk carrying finish_reason, inside delta or on the choice
FinishEvent(where, reason) ==
    [kind |-> "json",
     obj |-> BaseObj(<<IF where = "delta"
                       THEN [index |-> 0, delta |-> [finish_reason |-> reason]]
                       ELSE [index |-> 0, delta |-> EmptyObj,
                             finish_reason |-> reason]>>)]

\* the first millisecond of the model's clock
StartMillis == 7

VARIABLES
    state, buf, toolIndex, currentID,  \* the fields of the ToolCallTransformer
    output,     \* the events written to the io.Writer, in order
    now,        \* time.Now().UnixMilli()
    stream,     \* the upstream stream of this response
    pos,        \* the number of its pieces sent so far
    finished,   \* the upstream has sent its finish chunk
    fed,        \* history: per event fed, the event, the action that fed it,
                \* the rewriter before it and the events written for it
    writerBroken,  \* Write of the io.Writer returns an error from now on
    failedWrites,  \* the number of calls of Write that returned an error
    peer,       \* a second response served at the same time: its rewriter t,
                \* its output, its stream and pos, and the events fed to it
    ended       \* the calls of Flush and Close made for the end of the
                \* upstream, each with the rewriter before it, what it
                \* returned to write and the number of chunks written before

vars ==
    <<state, buf, toolIndex, currentID, output, now, stream, pos, finished, fed,
      writerBroken, failedWrites, peer, ended>>

\* the second response when proxyAndRespond has made its rewriter
NewPeer(s) ==
    [t |-> NewToolCallTransformer, output |-> <<>>, stream |-> s, pos |-> 0,
     fed |-> <<>>]

\* no second response
NoPeer == NewPeer([pieces |-> <<>>, field |-> "reasoning"])

rewriter ==
    [state |-> state, buf |-> buf, toolIndex |-> toolIndex, currentID |-> currentID]

Init ==
    /\ state = NewToolCallTransformer.state
    /\ buf = NewToolCallTransformer.buf
    /\ toolIndex = NewToolCallTransformer.toolIndex
    /\ currentID = NewToolCallTransformer.currentID
    /\ output = <<>>
    /\ now = StartMillis
    /\ stream \in Streams
    /\ pos = 0
    /\ finished = FALSE
    /\ fed = <<>>
    /\ writerBroken = FALSE
    /\ failedWrites = 0
    /\ peer = NoPeer
    /\ ended = <<>>

\* streamResponse hands one upstream event to Transform, which calls
\* writeSSE for each chunk the rewriter returns; writeSSE calls Write and
\* drops its error.  A millisecond passes between events.
Feed(ev, src) ==
    LET r == Transform(rewriter, ev, now)
    IN  /\ ended = <<>>
        /\ ended' = ended
        /\ state' = r.t.state
        /\ buf' = r.t.buf
        /\ toolIndex' = r.t.toolIndex
        /\ currentID' = r.t.currentID
        /\ output' = IF writerBroken THEN output ELSE output \o r.out
        /\ failedWrites' = IF writerBroken THEN failedWrites + Len(r.out)
                           ELSE failedWrites
        /\ writerBroken' = writerBroken
        /\ now' = now + 1
        /\ fed' = Append(fed, [ev |-> ev, src |-> src, pre |-> rewriter, out |-> r.out,
                               millis |-> now])
        /\ peer' = peer

\* the next k pieces of the stream arrive as one chunk
FeedReasoning ==
    /\ ~finished
    /\ \E k \in 1..(Len(stream.pieces) - pos) :
          /\ Feed(ReasoningEvent(Concat(SubSeq(stream.pieces, pos + 1, pos + k)),
                                 stream.field), "reasoning")
          /\ pos' = pos + k
    /\ UNCHANGED <<stream, finished>>

\* the chunk carrying finish_reason arrives, wherever the stream is
FeedFinish ==
    /\ ~finished
    /\ \E where \in {"delta", "choice"} : Feed(FinishEvent(where, "stop"), "finish")
    /\ finished' = TRUE
    /\ UNCHANGED <<stream, pos>>

Next == FeedReasoning \/ FeedFinish

Spec == Init /\ [][Next]_vars

\* ------------------------------------------------------------------------
\* the upstream with frames of other shapes between the reasoning chunks
\* ------------------------------------------------------------------------

\* the largest number of such frames in one response
MaxFrames == 2

txtHi == <<"h", "i">>

\* the opening frame of an OpenAI stream: a role, which the Delta struct
\* does not declare, and an explicitly empty content
FrameRole ==
    [kind |-> "json",
     obj |-> BaseObj(<<[index |-> 0,
                        delta |-> [role |-> "assistant", content |-> <<>>]]>>)]

\* visible content, alone and next to reasoning text
FrameContent ==
    [kind |-> "json", obj |-> BaseObj(<<[index |-> 0, delta |-> [content |-> txtHi]]>>)]

FrameContentReasoning ==
    [kind |-> "json",
     obj |-> BaseObj(<<[index |-> 0,
                        delta |-> [content |-> txtHi, reasoning |-> txtWorld]]>>)]

\* an already structured tool call
FrameToolCalls ==
    [kind |-> "json",
     obj |-> BaseObj(<<[index |-> 0,
                        delta |-> [tool_calls |->
                            <<[index |-> 0, id |-> txtCallAbc, type |-> "function",
                               function |-> [name |-> txtBash,
                                             arguments |-> txtBraces]]>>]]>>)]

\* content together with a finish_reason inside delta
FrameContentFinish ==
    [kind |-> "json",
     obj |-> BaseObj(<<[index |-> 0,
                        delta |-> [content |-> txtHi, finish_reason |-> "length"]]>>)]

\* the usage-only tail: no choices
FrameUsage ==
    [kind |-> "json",
     obj |-> BaseObj(<<>>) @@ [usage |-> [prompt_tokens |-> 3, completion_tokens |-> 5]]]

\* the usage-only tail of an OpenAI stream: usage carries total_tokens too,
\* which the Usage struct does not declare
FrameUsageTotal ==
    [kind |-> "json",
     obj |-> BaseObj(<<>>) @@ [usage |-> [prompt_tokens |-> 3, completion_tokens |-> 5,
                                          total_tokens |-> 8]]]

\* events whose data is not JSON: [DONE], the empty data, and other text
FrameDone == [kind |-> "text", text |-> DoneText]
FrameEmpty == [kind |-> "text", text |-> <<>>]
FrameGarbage == [kind |-> "text", text |-> <<" ", "o", "o", "p", "s", " ">>]

Frames ==
    {FrameRole, FrameContent, FrameContentReasoning, FrameToolCalls,
     FrameContentFinish, FrameUsage, FrameUsageTotal, FrameDone, FrameEmpty,
     FrameGarbage}

FrameStreams ==
    {[pieces |-> p, field |-> "reasoning"] :
        p \in {StreamLessThan, StreamPartial, StreamTestLog}}
    \cup {[pieces |-> StreamLessThan, field |-> "both"]}

InitFrames ==
    /\ state = NewToolCallTransformer.state
    /\ buf = NewToolCallTransformer.buf
    /\ toolIndex = NewToolCallTransformer.toolIndex
    /\ currentID = NewToolCallTransformer.currentID
    /\ output = <<>>
    /\ now = StartMillis
    /\ stream \in FrameStreams
    /\ pos = 0
    /\ finished = FALSE
    /\ fed = <<>>
    /\ writerBroken = FALSE
    /\ failedWrites = 0
    /\ peer = NoPeer
    /\ ended = <<>>

FramesFed == Cardinality({i \in 1..Len(fed) : fed[i].src = "frame"})

\* a frame of another shape arrives, wherever the stream is
FeedFrame ==
    /\ FramesFed < MaxFrames
    /\ \E ev \in Frames : Feed(ev, "frame")
    /\ UNCHANGED <<stream, pos, finished>>

NextFrames == FeedReasoning \/ FeedFinish \/ FeedFrame

SpecFrames == InitFrames /\ [][NextFrames]_vars

\* ------------------------------------------------------------------------
\* the downstream connection breaks in the middle of a response
\* ------------------------------------------------------------------------

\* the client goes away: every Write fails from now on
BreakWriter ==
    /\ ~writerBroken
    /\ writerBroken' = TRUE
    /\ UNCHANGED <<state, buf, toolIndex, currentID, output, now, stream, pos,
                   finished, fed, failedWrites, peer, ended>>

\* the upstream request carries the context of the downstream request
\* (handler.go): once the client is gone the read of the upstream body may
\* fail, which ends the loop of streamResponse
ReadFails ==
    /\ writerBroken /\ ~finished
    /\ finished' = TRUE
    /\ UNCHANGED <<state, buf, toolIndex, currentID, output, now, stream, pos,
                   fed, writerBroken, failedWrites, peer, ended>>

NextWriter == FeedReasoning \/ FeedFinish \/ BreakWriter \/ ReadFails

SpecWriter == Init /\ [][NextWriter]_vars

\* ------------------------------------------------------------------------
\* the upstream that goes on after the end of the section
\* ------------------------------------------------------------------------

AgainStreams ==
    {[pieces |-> p, field |-> "reasoning"] : p \in {StreamSecondSection, StreamTrailing}}

InitAgain ==
    /\ state = NewToolCallTransformer.state
    /\ buf = NewToolCallTransformer.buf
    /\ toolIndex = NewToolCallTransformer.toolIndex
    /\ currentID = NewToolCallTransformer.currentID
    /\ output = <<>>
    /\ now = StartMillis
    /\ stream \in AgainStreams
    /\ pos = 0
    /\ finished = FALSE
    /\ fed = <<>>
    /\ writerBroken = FALSE
    /\ failedWrites = 0
    /\ peer = NoPeer
    /\ ended = <<>>

SpecAgain == InitAgain /\ [][Next]_vars

\* ------------------------------------------------------------------------
\* the upstream with calls without arguments and sections without calls
\* ------------------------------------------------------------------------

EmptyStreams ==
    {[pieces |-> p, field |-> "reasoning"] : p \in {StreamEmptyArgs, StreamNoCalls}}

InitEmpty ==
    /\ state = NewToolCallTransformer.state
    /\ buf = NewToolCallTransformer.buf
    /\ toolIndex = NewToolCallTransformer.toolIndex
    /\ currentID = NewToolCallTransformer.currentID
    /\ output = <<>>
    /\ now = StartMillis
    /\ stream \in EmptyStreams
    /\ pos = 0
    /\ finished = FALSE
    /\ fed = <<>>
    /\ writerBroken = FALSE
    /\ failedWrites = 0
    /\ peer = NoPeer
    /\ ended = <<>>

SpecEmpty == InitEmpty /\ [][Next]_vars

\* ------------------------------------------------------------------------
\* the upstream with chunks carrying both reasoning keys
\* ------------------------------------------------------------------------

txtOpenCall ==
    tokSectionBegin \o tokCallBegin \o txtA1 \o tokArgBegin \o txtCmdHead

\* the texts a reasoning key carries: none, the opening of a call up to the
\* middle of its arguments, and plain text
DualTexts == {<<>>, txtOpenCall, txtCmdTail}

\* a chunk with the text r under reasoning and the text c under
\* reasoning_content; a key with no text is left out
DualEvent(r, c) ==
    [kind |-> "json",
     obj |-> BaseObj(<<[index |-> 0,
                        delta |-> Field("reasoning", r, r # <<>>)
                                  @@ Field("reasoning_content", c, c # <<>>)]>>)]

DualStreams ==
    {[pieces |-> StreamTestLog, field |-> f] : f \in {"both", "reasoning_content"}}

InitDual ==
    /\ state = NewToolCallTransformer.state
    /\ buf = NewToolCallTransformer.buf
    /\ toolIndex = NewToolCallTransformer.toolIndex
    /\ currentID = NewToolCallTransformer.currentID
    /\ output = <<>>
    /\ now = StartMillis
    /\ stream \in DualStreams
    /\ pos = 0
    /\ finished = FALSE
    /\ fed = <<>>
    /\ writerBroken = FALSE
    /\ failedWrites = 0
    /\ peer = NoPeer
    /\ ended = <<>>

FeedDual ==
    /\ FramesFed < MaxFrames
    /\ \E r \in DualTexts, c \in DualTexts : Feed(DualEvent(r, c), "frame")
    /\ UNCHANGED <<stream, pos, finished>>

NextDual == FeedReasoning \/ FeedFinish \/ FeedDual

SpecDual == InitDual /\ [][NextDual]_vars

\* ------------------------------------------------------------------------
\* the end of the upstream
\* ------------------------------------------------------------------------

\* Close that writes what is left in buf
CloseDrains(t) ==
    [t |-> [t EXCEPT !.buf = <<>>],
     out |-> IF t.buf # <<>> THEN <<RawPayload(t.buf)>> ELSE <<>>]

\* Close tests buf and the state and returns either way; it assigns nothing
\* and writes nothing
Close(t) ==
    IF t.buf # <<>> /\ t.state = stateTrailing
    THEN [t |-> t, out |-> <<>>]
    ELSE [t |-> t, out |-> <<>>]

\* Flush has an empty body
Flush(t) == [t |-> t, out |-> <<>>]

\* a stream that stops in the identifier of its second call
StreamMidID ==
    <<tokSectionBegin \o tokCallBegin \o txtA1 \o tokArgBegin \o txtBraces
      \o tokCallEnd \o tokCallBegin \o txtFunctionsDot>>

CloseStreams ==
    {[pieces |-> p, field |-> "reasoning"] :
        p \in {StreamPartial, StreamMidID, StreamTrailing, StreamBare}}

InitClose ==
    /\ state = NewToolCallTransformer.state
    /\ buf = NewToolCallTransformer.buf
    /\ toolIndex = NewToolCallTransformer.toolIndex
    /\ currentID = NewToolCallTransformer.currentID
    /\ output = <<>>
    /\ now = StartMillis
    /\ stream \in CloseStreams
    /\ pos = 0
    /\ finished = FALSE
    /\ fed = <<>>
    /\ writerBroken = FALSE
    /\ failedWrites = 0
    /\ peer = NoPeer
    /\ ended = <<>>

\* the rewriter after the operation op of the end of the upstream, and the
\* record of it
End(op, r) ==
    /\ state' = r.t.state
    /\ buf' = r.t.buf
    /\ toolIndex' = r.t.toolIndex
    /\ currentID' = r.t.currentID
    /\ output' = output \o r.out
    /\ ended' = Append(ended, [op |-> op, pre |-> rewriter, out |-> r.out,
                               written |-> Len(output)])
    /\ UNCHANGED <<now, stream, pos, finished, fed, writerBroken, failedWrites, peer>>

\* the caller flushes the rewriter before it reads what was written
FlushCall ==
    /\ ended = <<>>
    /\ End("Flush", Flush(rewriter))

\* the loop over the upstream events is over, at the end of the stream or
\* at a failed read, and streamResponse calls Close
CloseStream ==
    /\ \A k \in 1..Len(ended) : ended[k].op # "Close"
    /\ End("Close", Close(rewriter))

NextClose == FeedReasoning \/ FeedFinish \/ FlushCall \/ CloseStream

SpecClose == InitClose /\ [][NextClose]_vars

\* ------------------------------------------------------------------------
\* two responses served at the same time
\* ------------------------------------------------------------------------

PairStreams ==
    {[pieces |-> p, field |-> "reasoning"] : p \in {StreamTestLog, StreamNames}}

\* proxyAndRespond makes one rewriter for each request
InitPair ==
    /\ state = NewToolCallTransformer.state
    /\ buf = NewToolCallTransformer.buf
    /\ toolIndex = NewToolCallTransformer.toolIndex
    /\ currentID = NewToolCallTransformer.currentID
    /\ output = <<>>
    /\ now = StartMillis
    /\ stream \in PairStreams
    /\ pos = 0
    /\ finished = FALSE
    /\ fed = <<>>
    /\ writerBroken = FALSE
    /\ failedWrites = 0
    /\ peer \in {NewPeer(s) : s \in PairStreams}
    /\ ended = <<>>

\* the goroutine of the second response hands the next k pieces of its
\* stream to the Transform of its own rewriter; a rewriter that kept its
\* toolIndex in a variable of the package is FeedPeerSharedIndex
FeedPeerSharedIndex ==
    /\ \E k \in 1..(Len(peer.stream.pieces) - peer.pos) :
          LET ev == ReasoningEvent(
                        Concat(SubSeq(peer.stream.pieces, peer.pos + 1, peer.pos + k)),
                        peer.stream.field)
              r  == Transform([peer.t EXCEPT !.toolIndex = toolIndex], ev, now)
          IN  /\ peer' = [peer EXCEPT !.t = r.t,
                                      !.output = peer.output \o r.out,
                                      !.pos = peer.pos + k,
                                      !.fed = Append(peer.fed, [ev |-> ev, millis |-> now])]
              /\ toolIndex' = r.t.toolIndex
    /\ now' = now + 1
    /\ UNCHANGED <<state, buf, currentID, output, stream, pos, finished, fed,
                   writerBroken, failedWrites, ended>>

FeedPeer ==
    /\ \E k \in 1..(Len(peer.stream.pieces) - peer.pos) :
          LET ev == ReasoningEvent(
                        Concat(SubSeq(peer.stream.pieces, peer.pos + 1, peer.pos + k)),
                        peer.stream.field)
              r  == Transform(peer.t, ev, now)
          IN  peer' = [peer EXCEPT !.t = r.t,
                                   !.output = peer.output \o r.out,
                                   !.pos = peer.pos + k,
                                   !.fed = Append(peer.fed, [ev |-> ev, millis |-> now])]
    /\ now' = now + 1
    /\ UNCHANGED <<state, buf, toolIndex, currentID, output, stream, pos, finished,
                   fed, writerBroken, failedWrites, ended>>

NextPair == FeedReasoning \/ FeedFinish \/ FeedPeer

SpecPair == InitPair /\ [][NextPair]_vars

\* ------------------------------------------------------------------------
\* the upstream with chunks of other metadata and other numbers of choices
\* ------------------------------------------------------------------------

\* another id, model and created, the second choice of a request, and a
\* whole section with text around it and the finish_reason in one delta
FrameSectionOther ==
    [kind |-> "json",
     obj |-> [id |-> "chatcmpl-2", object |-> "chat.completion.chunk",
              created |-> 456, model |-> "kimi",
              choices |-> <<[index |-> 1,
                             delta |-> [reasoning |->
                                            txtPre \o tokSectionBegin \o tokCallBegin
                                            \o txtA1 \o tokArgBegin \o txtBraces
                                            \o tokCallEnd \o tokSectionEnd \o txtEnd,
                                        finish_reason |-> "tool_calls"]]>>]]

\* visible content for two choices in one chunk
FrameTwoChoices ==
    [kind |-> "json",
     obj |-> BaseObj(<<[index |-> 0, delta |-> [content |-> txtHi]],
                       [index |-> 1, delta |-> [content |-> txtWorld]]>>)]

\* a chunk without id, object, model and created
FrameNoMetadata ==
    [kind |-> "json",
     obj |-> [choices |-> <<[index |-> 0, delta |-> [reasoning |-> txtWorld]]>>]]

\* a finish_reason inside delta and another one on the choice
FrameFinishBoth ==
    [kind |-> "json",
     obj |-> BaseObj(<<[index |-> 0, delta |-> [finish_reason |-> "stop"],
                        finish_reason |-> "length"]>>)]

MetaFrames ==
    {FrameSectionOther, FrameTwoChoices, FrameNoMetadata, FrameUsage, FrameFinishBoth}

\* such a chunk arrives, wherever the stream is
FeedMeta ==
    /\ FramesFed < MaxFrames
    /\ \E ev \in MetaFrames : Feed(ev, "frame")
    /\ UNCHANGED <<stream, pos, finished>>

NextMeta == FeedReasoning \/ FeedFinish \/ FeedMeta

SpecMeta == InitFrames /\ [][NextMeta]_vars

\* ------------------------------------------------------------------------
\* reading the downstream output
\* ------------------------------------------------------------------------

\* the delta of the first choice of a written event ({} when it has none)
DeltaOf(p) ==
    IF p.kind = "json" /\ Len(p.obj["choices"]) > 0
    THEN p.obj["choices"][1]["delta"] ELSE EmptyObj

ContentOf(p) == Get(DeltaOf(p), "content", <<>>)
ToolCallsOf(p) == Get(DeltaOf(p), "tool_calls", <<>>)
ArgumentsOf(tc) == Get(Get(tc, "function", EmptyObj), "arguments", <<>>)
NameOf(tc) == Get(Get(tc, "function", EmptyObj), "name", <<>>)

\* the reasoning text a written event carries
ReasoningOf(p) ==
    IF Get(DeltaOf(p), "reasoning", <<>>) # <<>>
    THEN DeltaOf(p)["reasoning"]
    ELSE Get(DeltaOf(p), "reasoning_content", <<>>)

\* a tool-call header announces a call (it has a type); an argument delta
\* has an index and arguments only
IsHeader(p) == ToolCallsOf(p) # <<>> /\ "type" \in DOMAIN ToolCallsOf(p)[1]
IsArgsDelta(p) == ToolCallsOf(p) # <<>> /\ "type" \notin DOMAIN ToolCallsOf(p)[1]
IsContent(p) == ContentOf(p) # <<>>
IndexOf(p) == ToolCallsOf(p)[1]["index"]

\* the subsequence of the elements of s that satisfy Test
RECURSIVE SelectIdx(_, _)
SelectIdx(s, keep) ==
    IF s = <<>> THEN <<>>
    ELSE IF Len(s) \in keep
         THEN Append(SelectIdx(SubSeq(s, 1, Len(s) - 1), keep), s[Len(s)])
         ELSE SelectIdx(SubSeq(s, 1, Len(s) - 1), keep)

HeadersOf(out) == SelectIdx(out, {i \in 1..Len(out) : IsHeader(out[i])})

\* the (index, name) of the headers of out, in order
HeaderSeq(out) ==
    LET hs == HeadersOf(out)
    IN  [i \in 1..Len(hs) |-> <<IndexOf(hs[i]), NameOf(ToolCallsOf(hs[i])[1])>>]

\* the arguments of the header and argument deltas of out carrying index i,
\* concatenated in emission order
ArgsConcat(out, i) ==
    LET ps == SelectIdx(out, {k \in 1..Len(out) :
                                ToolCallsOf(out[k]) # <<>> /\ IndexOf(out[k]) = i})
    IN  Concat([k \in 1..Len(ps) |-> ArgumentsOf(ToolCallsOf(ps[k])[1])])

ContentConcat(out) == Concat([k \in 1..Len(out) |-> ContentOf(out[k])])
ReasoningConcat(out) == Concat([k \in 1..Len(out) |-> ReasoningOf(out[k])])

\* the payload content of an output
PayloadOf(out) ==
    LET hs == HeaderSeq(out)
    IN  [headers |-> hs,
         args |-> [k \in 1..Len(hs) |-> ArgsConcat(out, hs[k][1])],
         content |-> ContentConcat(out)]

\* the reasoning text the upstream has sent so far
Received == Concat(SubSeq(stream.pieces, 1, pos))

Tokens == {tokSectionBegin, tokCallBegin, tokArgBegin, tokCallEnd, tokSectionEnd}

\* ------------------------------------------------------------------------
\* properties
\* ------------------------------------------------------------------------

\* C1: chunk-boundary independence.  However the reasoning text received so
\* far was cut into chunks, the output has the same payload content (headers
\* with index and name, arguments per index, content text) as a fresh
\* rewriter produces for the same text sent as a single chunk.
C1_ChunkBoundaryIndependence ==
    (~finished /\ pos > 0) =>
        PayloadOf(output) =
            PayloadOf(Transform(NewToolCallTransformer,
                                ReasoningEvent(Received, stream.field),
                                StartMillis).out)

\* s ends with the first k characters of a delimiter, for some k short of
\* the whole delimiter
EndsWithTokenPrefix(s) ==
    \E tok \in Tokens : \E k \in 1..(Len(tok) - 1) :
        Len(s) >= k /\ SubSeq(s, Len(s) - k + 1, Len(s)) = SubSeq(tok, 1, k)

HasTokenFragment(s) == (\E tok \in Tokens : Contains(s, tok)) \/ EndsWithTokenPrefix(s)

\* the content and function.arguments fields of a written event
EmittedTexts(p) ==
    {ContentOf(p)} \cup {ArgumentsOf(ToolCallsOf(p)[k]) : k \in 1..Len(ToolCallsOf(p))}

\* C2: safe flush.  No content or function.arguments field written
\* downstream contains a delimiter or ends with the beginning of one.
C2_SafeFlush ==
    \A i \in 1..Len(output) : \A s \in EmittedTexts(output[i]) : ~HasTokenFragment(s)

\* the argument bytes of the complete tool calls of the text r: the bytes
\* between each argument-begin delimiter and the call-end delimiter after it
RECURSIVE ExpectedArgs(_)
ExpectedArgs(r) ==
    LET a == Index(r, tokArgBegin)
    IN  IF a < 0 THEN <<>>
        ELSE LET rest == Slice(r, a + Len(tokArgBegin), Len(r))
                 e    == Index(rest, tokCallEnd)
             IN  IF e < 0 THEN <<>>
                 ELSE <<Slice(rest, 0, e)>>
                      \o ExpectedArgs(Slice(rest, e + Len(tokCallEnd), Len(rest)))

\* C3: argument byte conservation.  For every tool call the upstream has
\* completed, the arguments written for its index, concatenated, are the
\* bytes between its argument-begin and its call-end delimiter.
C3_ArgumentBytesConserved ==
    \A i \in 1..Len(ExpectedArgs(Received)) :
        ArgsConcat(output, i - 1) = ExpectedArgs(Received)[i]

\* C4: header before arguments.  Before every argument delta with index i
\* the header with index i has been written and no header with a larger
\* index; and no tool-call chunk follows a content chunk that follows a
\* header (the content after the section end).
C4_HeaderBeforeArgs ==
    \A q \in 1..Len(output) :
        /\ IsArgsDelta(output[q]) =>
              /\ \E p \in 1..(q - 1) :
                    IsHeader(output[p]) /\ IndexOf(output[p]) = IndexOf(output[q])
              /\ \A p \in 1..(q - 1) :
                    IsHeader(output[p]) => IndexOf(output[p]) <= IndexOf(output[q])
        /\ ToolCallsOf(output[q]) # <<>> =>
              \A p \in 1..(q - 1) :
                  IsContent(output[p]) => \A h \in 1..(p - 1) : ~IsHeader(output[h])

\* a section of two calls: both headers, their argument deltas and the
\* content after the section end have been written
C4_Witness ==
    /\ Len(HeadersOf(output)) >= 2
    /\ \E q \in 1..Len(output) : IsArgsDelta(output[q]) /\ IndexOf(output[q]) = 1
    /\ \E q \in 1..Len(output) : IsArgsDelta(output[q]) /\ IndexOf(output[q]) = 0
    /\ IsContent(output[Len(output)])

\* C5: index monotonicity.  toolIndex never decreased over the events fed,
\* and the headers written carry the indices 0, 1, 2, ... in order.
C5_IndexMonotonic ==
    /\ \A i \in 1..Len(fed) :
          fed[i].pre.toolIndex <=
              (IF i < Len(fed) THEN fed[i + 1].pre.toolIndex ELSE toolIndex)
    /\ \A k \in 1..Len(HeadersOf(output)) : IndexOf(HeadersOf(output)[k]) = k - 1

C5_Witness == toolIndex >= 2 /\ Len(HeadersOf(output)) >= 2 /\ Len(fed) >= 3

\* the first choice of an upstream chunk, its delta and its reasoning text
HasChoices(ev) == ev.kind = "json" /\ Len(Get(ev.obj, "choices", <<>>)) > 0
EventChoice(ev) == ev.obj["choices"][1]
EventDelta(ev) == Get(EventChoice(ev), "delta", EmptyObj)
EventReasoning(ev) ==
    IF Get(EventDelta(ev), "reasoning", <<>>) # <<>>
    THEN EventDelta(ev)["reasoning"]
    ELSE Get(EventDelta(ev), "reasoning_content", <<>>)

\* the finish_reason an upstream chunk carries, in its delta or on its choice
HasFinish(ev) ==
    /\ HasChoices(ev)
    /\ \/ Get(EventDelta(ev), "finish_reason", "") # ""
       \/ Get(EventChoice(ev), "finish_reason", "") # ""
FinishOf(ev) ==
    IF "finish_reason" \in DOMAIN EventDelta(ev)
    THEN EventDelta(ev)["finish_reason"] ELSE EventChoice(ev)["finish_reason"]

\* the rewriter after the i-th event fed
PostOf(i) == IF i < Len(fed) THEN fed[i + 1].pre ELSE rewriter

C8_FinishHandling ==
    \A i \in 1..Len(fed) :
        HasFinish(fed[i].ev) =>
            /\ fed[i].out # <<>>
            /\ LET last == fed[i].out[Len(fed[i].out)]
               IN  /\ last.kind = "json"
                   /\ DeltaOf(last) = EmptyObj
                   /\ Get(last.obj["choices"][1], "finish_reason", "") = FinishOf(fed[i].ev)
            /\ fed[i].pre.state \in {stateIdle, stateTrailing, stateReadingArgs}
                  => PostOf(i).buf = <<>>

\* no delimiter occurs in the text s
NoDelimiter(s) == \A tok \in Tokens : ~Contains(s, tok)

C10_FragmentedSectionBegin ==
    (stream.pieces = StreamFragmented /\ pos = 7 /\ Len(fed) = 7 /\ ~finished) =>
        /\ Len(output) = 3
        /\ DeltaOf(output[1]) = [content |-> txtPre]
        /\ IsHeader(output[2])
        /\ LET tc == ToolCallsOf(output[2])[1]
           IN  /\ tc["index"] = 0
               /\ HasPrefix(Get(tc, "id", <<>>), callPrefix \o <<"0", "_">>)
               /\ tc["type"] = "function"
               /\ NameOf(tc) = <<"f", "u", "n", "c">>
               /\ ArgumentsOf(tc) = <<>>
        /\ DeltaOf(output[3]) =
              [tool_calls |-> <<[index |-> 0, function |-> [arguments |-> txtBraces]]>>]

C11_TrailingText ==
    \A i \in 1..Len(fed) :
        (/\ HasChoices(fed[i].ev)
         /\ fed[i].pre.state = stateTrailing
         /\ EventReasoning(fed[i].ev) # <<>>) =>
            ContentConcat(fed[i].out) = EventReasoning(fed[i].ev)

\* C12: mixed content.  When the whole stream has arrived and its text
\* holds text before the section begin, a section, and text after the
\* section end, the first event written is a content chunk with the text
\* before, the last is a content chunk with the text after, and the events
\* between them are tool_calls chunks.
C12_MixedContentOrder ==
    LET r == Received
        b == Index(r, tokSectionBegin)
        e == Index(r, tokSectionEnd)
        a == e + Len(tokSectionEnd)
    IN  (/\ pos = Len(stream.pieces) /\ ~finished
         /\ b > 0 /\ e > b /\ a < Len(r)) =>
            /\ Len(output) >= 3
            /\ DeltaOf(output[1]) = [content |-> Slice(r, 0, b)]
            /\ DeltaOf(output[Len(output)]) = [content |-> Slice(r, a, Len(r))]
            /\ \A k \in 2..(Len(output) - 1) : ToolCallsOf(output[k]) # <<>>

\* C13: everything else passes through.  For every upstream chunk, in
\* whatever state it arrives, its delta.content and its delta.tool_calls
\* (when it has them) are each carried by an event written for it.
C13_ContentAndToolCallsPass ==
    \A i \in 1..Len(fed) :
        HasChoices(fed[i].ev) =>
            \A k \in {"content", "tool_calls"} :
                Get(EventDelta(fed[i].ev), k, <<>>) # <<>> =>
                    \E j \in 1..Len(fed[i].out) :
                        Get(DeltaOf(fed[i].out[j]), k, <<>>) = EventDelta(fed[i].ev)[k]

\* the upstream reasoning bytes an event written downstream carries, in its
\* reasoning, content or function.arguments field
BytesOf(p) ==
    ReasoningOf(p) \o ContentOf(p)
    \o Concat([k \in 1..Len(ToolCallsOf(p)) |-> ArgumentsOf(ToolCallsOf(p)[k])])

\* the length of the longest common prefix of a and b
CommonPrefix(a, b) ==
    LET ks == {k \in 0..Len(a) : k <= Len(b) /\ SubSeq(a, 1, k) = SubSeq(b, 1, k)}
    IN  CHOOSE k \in ks : \A j \in ks : j <= k

\* e can be obtained from r by deleting bytes, the order of the others kept
\* (each byte of e is matched with its earliest possible place in r, a run
\* of bytes at a time)
RECURSIVE IsSubsequence(_, _)
IsSubsequence(e, r) ==
    IF e = <<>> THEN TRUE
    ELSE LET i == Index(r, <<Head(e)>>)
         IN  IF i < 0 THEN FALSE
             ELSE LET rr == Slice(r, i, Len(r))
                      k  == CommonPrefix(e, rr)
                  IN  IsSubsequence(SubSeq(e, k + 1, Len(e)), SubSeq(rr, k + 1, Len(rr)))

\* C14: order preservation.  The upstream reasoning bytes written
\* downstream, in the order written, are the reasoning text received with
\* some bytes left out: no byte is written before a byte that came earlier.
C14_OrderPreserved ==
    IsSubsequence(Concat([k \in 1..Len(output) |-> BytesOf(output[k])]), Received)

\* C15: bare literal outside a section.  When the upstream is over (its
\* finish chunk was the last event; Close, which follows, writes nothing)
\* and its stream held no delimiter at all, the text with <|tool_call that
\* arrived in state Idle has been written downstream as content and buf is
\* empty: it was not kept or dropped.
C15_BareLiteralFlushed ==
    (/\ finished
     /\ NoDelimiter(Concat(stream.pieces))
     /\ \E i \in 1..Len(fed) :
           /\ fed[i].pre.state = stateIdle
           /\ HasChoices(fed[i].ev)
           /\ containsAnyToken(EventReasoning(fed[i].ev))) =>
        /\ buf = <<>>
        /\ Contains(ContentConcat(output), tokAnyPrefix)

\* an upstream chunk without choices
IsUsageOnly(ev) == ev.kind = "json" /\ ~HasChoices(ev)

\* the keys of keys that obj has, with their values
Restrict(obj, keys) == [k \in DOMAIN obj \cap keys |-> obj[k]]

IsUnparseable(ev) == ev.kind = "text" /\ ev.text # <<>> /\ ev.text # DoneText

\* t is s without the white space at its two ends
IsTrimOf(t, s) ==
    /\ t # <<>> => ~IsSpace(t[1]) /\ ~IsSpace(t[Len(t)])
    /\ \E a \in 0..(Len(s) - Len(t)) :
          /\ SubSeq(s, a + 1, a + Len(t)) = t
          /\ \A k \in (1..a) \cup ((a + Len(t) + 1)..Len(s)) : IsSpace(s[k])

C18_DoneAndEmpty ==
    /\ \A i \in 1..Len(fed) :
          fed[i].ev.kind = "text" =>
              /\ fed[i].ev.text = DoneText =>
                    fed[i].out = <<RawPayload(DoneText)>> /\ PostOf(i) = fed[i].pre
              /\ fed[i].ev.text = <<>> =>
                    fed[i].out = <<>> /\ PostOf(i) = fed[i].pre
    /\ output = Concat([i \in 1..Len(fed) |-> fed[i].out])

\* [DONE] arrived after a header and an argument delta were written, with
\* the rewriter in the middle of the arguments, and an event with empty
\* data arrived too
C18_Witness ==
    /\ Len(output) >= 3
    /\ output[Len(output)] = RawPayload(DoneText)
    /\ IsHeader(output[1])
    /\ fed[Len(fed)].ev = FrameDone
    /\ fed[Len(fed)].pre.state = stateReadingArgs
    /\ \E i \in 1..Len(fed) : fed[i].ev = FrameEmpty

\* the identifiers of the text r: the bytes between each call-begin
\* delimiter and the argument-begin delimiter after it
RECURSIVE Identifiers(_)
Identifiers(r) ==
    LET b == Index(r, tokCallBegin)
    IN  IF b < 0 THEN <<>>
        ELSE LET rest == Slice(r, b + Len(tokCallBegin), Len(r))
                 a    == Index(rest, tokArgBegin)
             IN  IF a < 0 THEN <<>>
                 ELSE <<Slice(rest, 0, a)>>
                      \o Identifiers(Slice(rest, a + Len(tokArgBegin), Len(rest)))

\* the identifier of the call a header announces
IdentifierOf(p) == Identifiers(Received)[IndexOf(p) + 1]

\* C19: tool-call id rule.  For every header written, its id is the
\* trimmed identifier of its call when that begins with call_, and
\* otherwise call_<index>_<millis>, with the index the header carries and
\* the clock of the event it was written for.
C19_ToolCallIdRule ==
    \A i \in 1..Len(fed) : \A j \in 1..Len(fed[i].out) :
        IsHeader(fed[i].out[j]) =>
            LET p     == fed[i].out[j]
                ident == TrimSpace(IdentifierOf(p))
                id    == Get(ToolCallsOf(p)[1], "id", <<>>)
            IN  id = IF HasPrefix(ident, callPrefix) THEN ident
                     ELSE callPrefix \o Itoa(IndexOf(p)) \o <<"_">>
                          \o Itoa(StartMillis + i - 1)

\* the header of the identifier " call_abc\n" carries the id call_abc, and
\* the header after it, written two events later than the first event,
\* carries call_1_9
C19_Witness ==
    /\ Len(HeadersOf(output)) >= 2
    /\ IdentifierOf(HeadersOf(output)[1]) = txtCallSpaced
    /\ ToolCallsOf(HeadersOf(output)[1])[1]["id"] = txtCallAbc
    /\ ToolCallsOf(HeadersOf(output)[2])[1]["id"] =
          callPrefix \o <<"1", "_">> \o Itoa(StartMillis + 2)

\* the places of the byte c in the text s
Places(s, c) == {k \in 1..Len(s) : s[k] = c}

\* the function name of an identifier: the trimmed identifier without
\* everything up to and including its first dot, and then without
\* everything from its last colon on
ExpectedName(ident) ==
    LET t      == TrimSpace(ident)
        dots   == Places(t, ".")
        a      == IF dots = {} THEN t
                  ELSE SubSeq(t, (CHOOSE k \in dots : \A m \in dots : k <= m) + 1, Len(t))
        colons == Places(a, ":")
    IN  IF colons = {} THEN a
        ELSE SubSeq(a, 1, (CHOOSE k \in colons : \A m \in colons : k >= m) - 1)

\* C20: function-name extraction.  For every header written, function.name
\* is the name of the identifier of its call; functions.bash:15 gives bash,
\* my.pkg.task:3 gives pkg.task and do_it gives do_it.
C20_FunctionNameExtraction ==
    \A q \in 1..Len(output) :
        IsHeader(output[q]) =>
            LET ident == IdentifierOf(output[q])
                name  == NameOf(ToolCallsOf(output[q])[1])
            IN  /\ name = ExpectedName(ident)
                /\ ident = txtFunctionsBash => name = txtBash
                /\ ident = txtMyPkgTask => name = <<"p", "k", "g", ".", "t", "a", "s", "k">>
                /\ ident = txtDoIt => name = <<"d", "o", "_", "i", "t">>

\* the headers of the identifiers " call_abc\n", my.pkg.task:3 and " do_it"
\* have been written
C20_Witness ==
    /\ stream.pieces = StreamNames
    /\ Len(HeadersOf(output)) = 3
    /\ IdentifierOf(HeadersOf(output)[2]) = txtMyPkgTask
    /\ IdentifierOf(HeadersOf(output)[3]) = txtDoIt
    /\ NameOf(ToolCallsOf(HeadersOf(output)[1])[1]) = txtCallAbc

\* a written chunk that announces a tool call: its tool_calls entry has an
\* id, a type or a function name
Announces(p) ==
    /\ ToolCallsOf(p) # <<>>
    /\ \/ {"id", "type"} \cap DOMAIN ToolCallsOf(p)[1] # {}
       \/ "name" \in DOMAIN Get(ToolCallsOf(p)[1], "function", EmptyObj)

\* the type, id and arguments of a header are as they must be
HeaderFields(p) ==
    /\ Len(ToolCallsOf(p)) = 1
    /\ Get(ToolCallsOf(p)[1], "type", "") = "function"
    /\ Get(ToolCallsOf(p)[1], "id", <<>>) # <<>>
    /\ ArgumentsOf(ToolCallsOf(p)[1]) = <<>>

\* C21 as stated: header shape.  Every chunk written that announces a tool
\* call carries the type function, a non-empty id, a non-empty function
\* name and empty function arguments.
C21_HeaderShape ==
    \A q \in 1..Len(output) :
        Announces(output[q]) =>
            HeaderFields(output[q]) /\ NameOf(ToolCallsOf(output[q])[1]) # <<>>

\* C21 as amended: the function name is non-empty whenever the identifier
\* of the call yields a non-empty name, and empty otherwise.
C21_HeaderShapeOfIdentifier ==
    \A q \in 1..Len(output) :
        Announces(output[q]) =>
            /\ HeaderFields(output[q])
            /\ (NameOf(ToolCallsOf(output[q])[1]) = <<>>)
                   = (ExpectedName(IdentifierOf(output[q])) = <<>>)

\* the headers of the empty identifier and of "functions." have been
\* written, each with an id and without a name
C21_Witness ==
    /\ stream.pieces = StreamEmptyName
    /\ Len(HeadersOf(output)) = 2
    /\ \A k \in 1..2 :
          /\ NameOf(ToolCallsOf(HeadersOf(output)[k])[1]) = <<>>
          /\ HasPrefix(ToolCallsOf(HeadersOf(output)[k])[1]["id"], callPrefix)

PassedThrough(i) ==
    /\ fed[i].ev.kind = "json"
    /\ \/ ~HasChoices(fed[i].ev)
       \/ fed[i].pre.state = stateIdle /\ ~containsAnyToken(EventReasoning(fed[i].ev))

MetaKeys == {"id", "object", "model", "created"}

\* the indices of the choices of a JSON object
ChoiceIndices(obj) ==
    [k \in 1..Len(Get(obj, "choices", <<>>)) |-> obj["choices"][k]["index"]]

\* C23 as stated: metadata echo.  Every chunk written for an upstream chunk
\* carries the id, object, model and created of that chunk and a choices
\* array of one element, with the index of the first choice of that chunk.
C23_MetadataEcho ==
    \A i \in 1..Len(fed) : \A j \in 1..Len(fed[i].out) :
        fed[i].ev.kind = "json" =>
            /\ fed[i].out[j].kind = "json"
            /\ Restrict(fed[i].out[j].obj, MetaKeys) = Restrict(fed[i].ev.obj, MetaKeys)
            /\ Len(fed[i].out[j].obj["choices"]) = 1
            /\ HasChoices(fed[i].ev) =>
                  ChoiceIndices(fed[i].out[j].obj)[1] = ChoiceIndices(fed[i].ev.obj)[1]

\* C23 as amended: every chunk written carries the id, object, model and
\* created of its upstream chunk; a chunk the rewriter builds has one choice,
\* with the index of the first choice of the upstream chunk, and a chunk
\* passed through has the choices of the upstream chunk, be they none or
\* several.
C23_MetadataEchoBuilt ==
    \A i \in 1..Len(fed) : \A j \in 1..Len(fed[i].out) :
        fed[i].ev.kind = "json" =>
            /\ fed[i].out[j].kind = "json"
            /\ Restrict(fed[i].out[j].obj, MetaKeys) = Restrict(fed[i].ev.obj, MetaKeys)
            /\ ChoiceIndices(fed[i].out[j].obj) =
                  IF PassedThrough(i) THEN ChoiceIndices(fed[i].ev.obj)
                  ELSE <<ChoiceIndices(fed[i].ev.obj)[1]>>

\* the chunk chatcmpl-2 with choice 1 arrived in state Idle and a content
\* chunk, a header and an argument delta were built from it; a chunk with
\* two choices was passed through
C23_Witness ==
    /\ \E i \in 1..Len(fed) :
          /\ fed[i].ev = FrameSectionOther
          /\ fed[i].pre.state = stateIdle
          /\ Len(fed[i].out) = 4
          /\ IsHeader(fed[i].out[2])
          /\ fed[i].out[2].obj["id"] = "chatcmpl-2"
    /\ \E i \in 1..Len(fed) :
          fed[i].ev = FrameTwoChoices /\ Len(fed[i].out) = 1

\* the finish_reason on the first choice of a written chunk ("" when none)
ChoiceFinishOf(p) == Get(p.obj["choices"][1], "finish_reason", "")

C25_FinishPromoted ==
    \A i \in 1..Len(fed) : \A j \in 1..Len(fed[i].out) :
        (HasChoices(fed[i].ev) /\ "finish_reason" \in DOMAIN EventDelta(fed[i].ev)) =>
            /\ fed[i].out[j].kind = "json"
            /\ ChoiceFinishOf(fed[i].out[j]) = EventDelta(fed[i].ev)["finish_reason"]
            /\ "finish_reason" \notin DOMAIN DeltaOf(fed[i].out[j])

\* a chunk with finish_reason stop in its delta and length on its choice
\* was passed through with stop on the choice, and the chunks built from a
\* chunk with tool_calls in its delta carry tool_calls on the choice
C25_Witness ==
    /\ \E i \in 1..Len(fed) :
          /\ fed[i].ev = FrameFinishBoth
          /\ Len(fed[i].out) = 1
          /\ ChoiceFinishOf(fed[i].out[1]) = "stop"
    /\ \E i \in 1..Len(fed) :
          /\ fed[i].ev = FrameSectionOther
          /\ Len(fed[i].out) >= 2
          /\ ChoiceFinishOf(fed[i].out[1]) = "tool_calls"

\* C26: writer errors are terminal.  After a Write has failed no further
\* Write is called for the response: at most one call of Write fails.
C26_WriterErrorTerminal == failedWrites <= 1

\* a response served alone: a fresh rewriter fed the events evs one after
\* the other, each at the reading of the clock it is recorded with; t is
\* the rewriter and out the output so far
RECURSIVE Alone(_, _, _)
Alone(t, out, evs) ==
    IF evs = <<>> THEN [t |-> t, out |-> out]
    ELSE LET r == Transform(t, Head(evs).ev, Head(evs).millis)
         IN  Alone(r.t, out \o r.out, Tail(evs))

IsHeaderOf(p, k, n) ==
    /\ IsHeader(p) /\ HeaderFields(p)
    /\ IndexOf(p) = k
    /\ NameOf(ToolCallsOf(p)[1]) = n

\* the chunk p is an argument delta of the call number k with the bytes a
IsArgsDeltaOf(p, k, a) ==
    /\ IsArgsDelta(p)
    /\ Len(ToolCallsOf(p)) = 1
    /\ IndexOf(p) = k
    /\ ArgumentsOf(ToolCallsOf(p)[1]) = a

\* the one upstream chunk of scenario S3 was the first event fed
FedTwoCalls ==
    /\ Len(fed) >= 1
    /\ fed[1].ev.kind = "json"
    /\ EventReasoning(fed[1].ev) = StreamTwoCalls[1]

\* C28 as stated: two sequential calls in one frame.  For the one chunk of
\* scenario S3 the output is exactly the header with index 0 and name a and
\* the header with index 1 and name b, with no argument delta.
C28_TwoCallsOneFrame ==
    FedTwoCalls =>
        /\ Len(fed[1].out) = 2
        /\ IsHeaderOf(fed[1].out[1], 0, <<"a">>)
        /\ IsHeaderOf(fed[1].out[2], 1, <<"b">>)

\* C28 amended: for the one chunk of scenario S3 the output is exactly the
\* header with index 0, a synthesized id call_0_<millis> and name a, the
\* argument delta {} with index 0, the header with index 1, a synthesized id
\* call_1_<millis> and name b, and the argument delta {} with index 1;
\* nothing is written for the section markers.
C28_TwoCallsOneFrameWithArgs ==
    FedTwoCalls =>
        /\ Len(fed[1].out) = 4
        /\ IsHeaderOf(fed[1].out[1], 0, <<"a">>)
        /\ HasPrefix(ToolCallsOf(fed[1].out[1])[1]["id"],
                     <<"c","a","l","l","_","0","_">>)
        /\ IsArgsDeltaOf(fed[1].out[2], 0, txtBraces)
        /\ IsHeaderOf(fed[1].out[3], 1, <<"b">>)
        /\ HasPrefix(ToolCallsOf(fed[1].out[3])[1]["id"],
                     <<"c","a","l","l","_","1","_">>)
        /\ IsArgsDeltaOf(fed[1].out[4], 1, txtBraces)
        /\ fed[1].out = SubSeq(output, 1, 4)
        /\ PostOf(1).state = stateTrailing /\ PostOf(1).buf = <<>>
        /\ PostOf(1).toolIndex = 2

\* the chunk of scenario S3 has been fed and its four chunks written
C28_Witness ==
    /\ FedTwoCalls
    /\ pos = 1
    /\ Len(output) = 4
    /\ IsArgsDelta(output[2]) /\ IsArgsDelta(output[4])

\* the text the rewriter holds while it works on the i-th event: what was
\* in buf before, and the reasoning text of the event after it
HeldAt(i) ==
    fed[i].pre.buf \o
        (IF fed[i].ev.kind = "json" /\ HasChoices(fed[i].ev)
         THEN EventReasoning(fed[i].ev) ELSE <<>>)

\* the content and arguments fields the upstream chunk of the i-th event
\* carries itself
OwnTexts(i) ==
    IF fed[i].ev.kind = "json" THEN EmittedTexts(fed[i].ev) ELSE {}

\* C29: no invented bytes.  Every content or arguments field written for an
\* event is a run of bytes of the text held at that event (the buffer before
\* it and the reasoning text of the event) or a field the upstream chunk
\* carries itself, and the buffer left after the event is a run of bytes
\* of the text held; by induction from the empty buffer every byte written
\* or kept was received, also at a finish in the middle of a section.
C29_NoInventedBytes ==
    \A i \in 1..Len(fed) :
        /\ \A q \in 1..Len(fed[i].out) :
              fed[i].out[q].kind = "json" =>
                 \A x \in EmittedTexts(fed[i].out[q]) :
                     \/ x = <<>>
                     \/ Contains(HeldAt(i), x)
                     \/ x \in OwnTexts(i)
        /\ PostOf(i).buf = <<>> \/ Contains(HeldAt(i), PostOf(i).buf)

\* the stream of scenario S5 stopped in the middle of the arguments: the
\* partial arguments were written as they came and the finish added nothing
C29_Witness ==
    /\ stream.pieces = StreamPartial
    /\ pos = 1 /\ finished
    /\ state = stateReadingArgs
    /\ Len(output) = 2
    /\ IsArgsDelta(output[2])
    /\ ArgumentsOf(ToolCallsOf(output[2])[1]) = txtPartial

\* s is the beginning of a delimiter and not all of it
IsStrictTokenPrefix(s) ==
    \E tok \in Tokens : Len(s) < Len(tok) /\ HasPrefix(tok, s)

\* C30: buffer invariant.  After every Transform, buf is empty or holds
\* only the beginning of something unfinished: in states Idle and Trailing
\* the beginning of a delimiter, in state InSection text without a whole
\* delimiter, in state ReadingID an identifier not yet closed by the
\* argument marker, in state ReadingArgs arguments not yet closed by the
\* end of the call.  So buf never holds text that is already content.
C30_BufferInvariant ==
    \/ buf = <<>>
    \/ /\ state \in {stateIdle, stateTrailing}
       /\ IsStrictTokenPrefix(buf)
    \/ /\ state = stateInSection
       /\ NoDelimiter(buf)
    \/ /\ state = stateReadingID
       /\ ~Contains(buf, tokArgBegin)
    \/ /\ state = stateReadingArgs
       /\ ~Contains(buf, tokCallEnd)

\* C31: Trailing is terminal.  An event fed in state Trailing leaves the
\* state Trailing and writes no chunk with tool_calls, also when its text
\* holds a second section marker.
C31_TrailingTerminal ==
    \A i \in 1..Len(fed) :
        fed[i].pre.state = stateTrailing =>
            /\ PostOf(i).state = stateTrailing
            /\ PostOf(i).toolIndex = fed[i].pre.toolIndex
            /\ \A q \in 1..Len(fed[i].out) :
                  fed[i].out[q].kind = "json" => ToolCallsOf(fed[i].out[q]) = <<>>

\* the second section of the stream was fed in state Trailing, with its
\* call, and the one header written is that of the first section
C31_Witness ==
    /\ stream.pieces = StreamSecondSection
    /\ pos = Len(StreamSecondSection)
    /\ state = stateTrailing
    /\ \E i \in 1..Len(fed) :
          /\ fed[i].pre.state = stateTrailing
          /\ Contains(EventReasoning(fed[i].ev), tokSectionBegin \o tokCallBegin)
    /\ Cardinality({q \in 1..Len(output) : IsHeader(output[q])}) = 1

\* C32: empty emissions.  A call the upstream has completed with no byte
\* between its argument begin and its call end has its header and no
\* argument delta; a section without calls has no chunk with tool_calls;
\* and every chunk the rewriter builds carries content text or tool_calls.
C32_EmptyEmissions ==
    /\ \A k \in 1..Len(ExpectedArgs(Received)) :
          ExpectedArgs(Received)[k] = <<>> =>
             /\ \E q \in 1..Len(output) :
                   IsHeader(output[q]) /\ IndexOf(output[q]) = k - 1
             /\ \A q \in 1..Len(output) :
                   ~(IsArgsDelta(output[q]) /\ IndexOf(output[q]) = k - 1)
    /\ ~Contains(Received, tokCallBegin) =>
          \A q \in 1..Len(output) : ToolCallsOf(output[q]) = <<>>
    /\ \A i \in 1..Len(fed) :
          ~PassedThrough(i) =>
             \A q \in 1..Len(fed[i].out) :
                 IsContent(fed[i].out[q]) \/ ToolCallsOf(fed[i].out[q]) # <<>>

\* C33: empty function name.  For every identifier received that yields no
\* function name, the header of its call is written, with the index of the
\* call, an id, the type function and no name, and the call goes on: when
\* its arguments are complete they have been written under its index.
C33_EmptyNameHeader ==
    \A k \in 1..Len(Identifiers(Received)) :
        ExpectedName(Identifiers(Received)[k]) = <<>> =>
            /\ \E q \in 1..Len(output) :
                  /\ IsHeaderOf(output[q], k - 1, <<>>)
                  /\ Cardinality({h \in 1..Len(output) : IsHeader(output[h])
                                      /\ IndexOf(output[h]) = k - 1}) = 1
            /\ k <= Len(ExpectedArgs(Received)) =>
                  ArgsConcat(output, k - 1) = ExpectedArgs(Received)[k]

\* both calls of the stream of nameless identifiers were written, each as
\* a header without a name and its arguments {}
C33_Witness ==
    /\ stream.pieces = StreamEmptyName
    /\ pos = Len(StreamEmptyName)
    /\ state = stateTrailing
    /\ Len(output) = 4
    /\ IsHeaderOf(output[1], 0, <<>>) /\ IsArgsDeltaOf(output[2], 0, txtBraces)
    /\ IsHeaderOf(output[3], 1, <<>>) /\ IsArgsDeltaOf(output[4], 1, txtBraces)

\* the text of the key k of the delta of the event ev
KeyText(ev, k) == Get(EventDelta(ev), k, <<>>)

\* the text of reasoning when it has any, and that of reasoning_content
\* otherwise
PickedText(ev) ==
    IF KeyText(ev, "reasoning") # <<>> THEN KeyText(ev, "reasoning")
    ELSE KeyText(ev, "reasoning_content")

\* C34: dual reasoning fields.  For every chunk with choices that is not
\* passed through, the text worked on is the buffer followed by the picked
\* text, once: every content or arguments field written and the buffer left
\* are runs of bytes of it; in state ReadingArgs, without a call end in it,
\* all of it is written as one argument delta; in state Trailing all of it
\* is the buffer left.  A chunk in state Idle whose picked text has no
\* marker leaves the rewriter as it was.
C34_DualReasoning ==
    \A i \in 1..Len(fed) :
        HasChoices(fed[i].ev) =>
            LET pre  == fed[i].pre
                text == pre.buf \o PickedText(fed[i].ev)
            IN  IF pre.state = stateIdle /\ ~containsAnyToken(PickedText(fed[i].ev))
                THEN PostOf(i) = pre
                ELSE /\ \A q \in 1..Len(fed[i].out) :
                          \A x \in EmittedTexts(fed[i].out[q]) :
                              x = <<>> \/ Contains(text, x)
                     /\ PostOf(i).buf = <<>> \/ Contains(text, PostOf(i).buf)
                     /\ (pre.state = stateReadingArgs /\ text # <<>>
                             /\ ~Contains(text, tokCallEnd)) =>
                            /\ Len(fed[i].out) = 1
                            /\ IsArgsDeltaOf(fed[i].out[1], pre.toolIndex, text)
                            /\ PostOf(i).buf = <<>>
                     /\ pre.state = stateTrailing => PostOf(i).buf = text

\* a chunk with the same text under both keys was fed in state ReadingArgs
\* and another with different texts under the two keys, and the arguments
\* written are the text of reasoning of each, once
C34_Witness ==
    \E i \in 1..Len(fed) : \E j \in 1..Len(fed) :
        /\ fed[i].pre.state = stateReadingArgs
        /\ KeyText(fed[i].ev, "reasoning") = txtCmdTail
        /\ KeyText(fed[i].ev, "reasoning_content") = txtCmdTail
        /\ IsArgsDeltaOf(fed[i].out[1], 0, txtCmdTail)
        /\ KeyText(fed[j].ev, "reasoning") = txtOpenCall
        /\ KeyText(fed[j].ev, "reasoning_content") = txtCmdTail
        /\ fed[j].pre.state = stateIdle
        /\ Len(fed[j].out) = 2
        /\ IsArgsDeltaOf(fed[j].out[2], 0, txtCmdHead)

RECURSIVE Steps(_, _, _)
Steps(t, base, millis) ==
    LET r == loopStep(t, base, millis)
    IN  <<[from |-> t.state, to |-> r.t.state, out |-> r.out,
           bufFrom |-> t.buf, bufTo |-> r.t.buf]>>
        \o (IF r.ret THEN <<>> ELSE Steps(r.t, base, millis))

\* the iterations made for the i-th event fed: none for an event that does
\* not reach processReasoning
StepsOf(i) ==
    IF HasChoices(fed[i].ev) /\ ~PassedThrough(i)
    THEN Steps([fed[i].pre EXCEPT !.buf = fed[i].pre.buf \o EventReasoning(fed[i].ev)],
               promote(UnmarshalChunk(fed[i].ev.obj)), fed[i].millis)
    ELSE <<>>

Edges ==
    {<<stateIdle, stateInSection>>, <<stateInSection, stateReadingID>>,
     <<stateInSection, stateTrailing>>, <<stateReadingID, stateReadingArgs>>,
     <<stateReadingArgs, stateInSection>>}

\* C36: state transition graph.  The rewriter starts in Idle; every
\* iteration of the loop keeps the state or changes it along one of the five
\* edges; the iterations of an event lead from the state before it to the
\* state after it and write what was written for it; an event that makes no
\* iteration keeps the state; Idle is never entered again; and an iteration
\* in Idle or Trailing writes no chunk with tool_calls.
C36_TransitionGraph ==
    /\ (fed = <<>> => state = stateIdle)
    /\ \A i \in 1..Len(fed) :
          LET st == StepsOf(i)
          IN  /\ i = 1 => fed[i].pre.state = stateIdle
              /\ fed[i].pre.state # stateIdle => PostOf(i).state # stateIdle
              /\ st = <<>> => PostOf(i).state = fed[i].pre.state
              /\ st # <<>> =>
                    /\ st[1].from = fed[i].pre.state
                    /\ st[Len(st)].to = PostOf(i).state
                    /\ Concat([k \in 1..Len(st) |-> st[k].out]) = fed[i].out
              /\ \A k \in 1..Len(st) :
                    /\ st[k].from # st[k].to => <<st[k].from, st[k].to>> \in Edges
                    /\ k < Len(st) => st[k + 1].from = st[k].to
                    /\ st[k].from \in {stateIdle, stateTrailing} =>
                          \A q \in 1..Len(st[k].out) : ToolCallsOf(st[k].out[q]) = <<>>

\* every edge has been taken, over several events: the rewriter went from
\* Idle through two calls to Trailing, one state change per event or more
C36_Witness ==
    /\ state = stateTrailing
    /\ toolIndex = 2
    /\ \A e \in Edges :
          \E i \in 1..Len(fed) : \E k \in 1..Len(StepsOf(i)) :
              <<StepsOf(i)[k].from, StepsOf(i)[k].to>> = e
    /\ \E i \in 1..Len(fed) : fed[i].pre.state = stateReadingArgs
    /\ \E i \in 1..Len(fed) : fed[i].pre.state = stateInSection

\* the number of headers written so far
HeadersWritten == Cardinality({q \in 1..Len(output) : IsHeader(output[q])})

\* the number of call-end delimiters consumed so far: the iterations that
\* went from ReadingArgs to InSection
CallEndsConsumed ==
    Cardinality({ik \in UNION {{<<i, k>> : k \in 1..Len(StepsOf(i))} : i \in 1..Len(fed)} :
                    /\ StepsOf(ik[1])[ik[2]].from = stateReadingArgs
                    /\ StepsOf(ik[1])[ik[2]].to = stateInSection})

\* C37: header count invariant.  The number of headers written is toolIndex
\* plus one in state ReadingArgs and toolIndex otherwise, and toolIndex is
\* the number of call-end delimiters consumed.
C37_HeaderCount ==
    /\ HeadersWritten = toolIndex + (IF state = stateReadingArgs THEN 1 ELSE 0)
    /\ toolIndex = CallEndsConsumed

\* the second call is in progress: two headers written, one call ended
C37_Witness ==
    /\ state = stateReadingArgs
    /\ toolIndex = 1
    /\ HeadersWritten = 2
    /\ CallEndsConsumed = 1

\* the written chunk p carries a finish_reason
CarriesFinish(p) ==
    /\ p.kind = "json"
    /\ Len(Get(p.obj, "choices", <<>>)) > 0
    /\ \/ ChoiceFinishOf(p) # ""
       \/ Get(DeltaOf(p), "finish_reason", "") # ""

\* C38: single finish.  When exactly one upstream chunk fed carried a
\* finish_reason, at most one chunk written carries a finish_reason, and no
\* chunk written after it carries content or tool_calls.
C38_SingleFinish ==
    Cardinality({i \in 1..Len(fed) : HasFinish(fed[i].ev)}) = 1 =>
        LET fs == {q \in 1..Len(output) : CarriesFinish(output[q])}
        IN  /\ Cardinality(fs) <= 1
            /\ \A q \in fs : \A r \in (q + 1)..Len(output) :
                  output[r].kind = "json" =>
                     ~IsContent(output[r]) /\ ToolCallsOf(output[r]) = <<>>

\* the i-th event fed took the fast passthrough path: a chunk with choices
\* in state Idle whose reasoning text is without the marker
FastPassthrough(i) ==
    /\ HasChoices(fed[i].ev)
    /\ fed[i].pre.state = stateIdle
    /\ ~Contains(PickedText(fed[i].ev), tokAnyPrefix)

\* C39: frame of the passthrough path.  An event that takes the fast
\* passthrough path leaves state, buf, toolIndex and currentID as they were
\* and has exactly one chunk written for it, with the reasoning text of the
\* event in it; text held in buf stays held.
C39_PassthroughFrame ==
    \A i \in 1..Len(fed) :
        FastPassthrough(i) =>
            /\ PostOf(i).state = fed[i].pre.state
            /\ PostOf(i).buf = fed[i].pre.buf
            /\ PostOf(i).toolIndex = fed[i].pre.toolIndex
            /\ PostOf(i).currentID = fed[i].pre.currentID
            /\ Len(fed[i].out) = 1
            /\ ReasoningOf(fed[i].out[1]) = PickedText(fed[i].ev)

\* the rewriter held the bare literal text in buf in state Idle when the
\* chunk world was passed through, and holds it still
C39_Witness ==
    \E i \in 1..Len(fed) :
        /\ FastPassthrough(i)
        /\ fed[i].pre.buf = txtPre \o tokAnyPrefix \o txtEnd
        /\ PickedText(fed[i].ev) = txtWorld
        /\ buf = fed[i].pre.buf
        /\ ReasoningOf(output[Len(output)]) = txtWorld

\* s is the end of the text r
IsSuffixOf(s, r) ==
    Len(s) <= Len(r) /\ SubSeq(r, Len(r) - Len(s) + 1, Len(r)) = s

\* the number of places of the text r where a delimiter begins
DelimitersIn(r) ==
    Cardinality({k \in 1..Len(r) : \E tok \in Tokens :
                    k + Len(tok) - 1 <= Len(r) /\ SubSeq(r, k, k + Len(tok) - 1) = tok})

\* C40: termination of one Transform.  Every iteration of the loop of
\* processReasoning but the last leaves of buf an end of what it was,
\* shorter by at least one whole delimiter that was in it; so the loop makes
\* at most one iteration more than there are delimiters in the buffer and
\* the text of the event, and returns.
C40_LoopTerminates ==
    \A i \in 1..Len(fed) :
        LET st == StepsOf(i)
        IN  /\ \A k \in 1..(Len(st) - 1) :
                  /\ IsSuffixOf(st[k].bufTo, st[k].bufFrom)
                  /\ \E tok \in Tokens :
                        /\ Contains(st[k].bufFrom, tok)
                        /\ Len(st[k].bufTo) + Len(tok) <= Len(st[k].bufFrom)
            /\ st # <<>> => Len(st) <= DelimitersIn(st[1].bufFrom) + 1

\* the chunk with two whole calls was worked on in eight iterations
C40_Witness ==
    \E i \in 1..Len(fed) :
        /\ EventReasoning(fed[i].ev) = StreamTwoCalls[1]
        /\ Len(StepsOf(i)) = 8
        /\ DelimitersIn(StepsOf(i)[1].bufFrom) = 8

====
